---- MODULE Spec2Model ----
(***************************************************************************)
(* Model of the conversion server: the converter classes                   *)
(* (MarkdownToHtmlConverter, HtmlToPdfConverter, HtmlToDocxConverter,      *)
(* MarkdownToPdfConverter, MarkdownToDocxConverter) and the two call-tool  *)
(* front-ends.                                                             *)
(*                                                                         *)
(* Conventions.                                                            *)
(*  - A text (Markdown, HTML, URL, bytes of a buffer) is a sequence of     *)
(*    chunks; the empty sequence is the empty string.  A chunk is a whole  *)
(*    tag or a run of characters, so a marker such as '<head>' never       *)
(*    spans two chunks.                                                    *)
(*  - A JavaScript payload is [t |-> typeof, text |-> ...].                *)
(*  - An options object is [t |-> typeof, f |-> fields], fields a function *)
(*    from key paths (sequences of keys) to scalar values.  A nested       *)
(*    object is the path of the object (value O) plus the paths below it.  *)
(*  - An optional value (data?, error?, metadata?) is a sequence of        *)
(*    length 0 (absent) or 1.                                              *)
(*  - Every async function is a frame on its caller's stack; one action    *)
(*    runs the code between two awaits, in the converters, in the         *)
(*    call-tool handlers (fs.access, fs.readFile, fs.writeFile) and in the *)
(*    command line alike.                                                  *)
(***************************************************************************)
EXTENDS Integers, Sequences, FiniteSets, TLC

\* ---------------------------------------------------------------- bounds

\* Number of requests that may be in flight together.
NumCalls == 2
\* Number of calls started in one behaviour.
MaxStarted == 2

\* Number of event streams opened in one behaviour.
MaxStreams == 2
\* Number of messages posted in one behaviour.
MaxPosts == 3
\* Number of calls started in one behaviour of requests in parallel.
MaxParallel == 3
\* Number of signals a launcher gets while its child runs.
MaxSignals == 2

Calls == 1..NumCalls

\* ------------------------------------------------------- optional values

None == <<>>
Some(v) == <<v>>
IsSome(o) == Len(o) = 1
Get(o) == o[1]

\* ------------------------------------------------------------ JS values

\* a scalar: typeof t and the value in the field of its type (a is the
\* element set of an array or the entry set of a record-valued option)
U == [t |-> "undefined", s |-> "", n |-> 0, b |-> FALSE, a |-> {}]
S(str) == [t |-> "string", s |-> str, n |-> 0, b |-> FALSE, a |-> {}]
\* numbers are kept in tenths: N(21) is 2.1
N(tenths) == [t |-> "number", s |-> "", n |-> tenths, b |-> FALSE, a |-> {}]
B(bool) == [t |-> "boolean", s |-> "", n |-> 0, b |-> bool, a |-> {}]
O == [t |-> "object", s |-> "", n |-> 0, b |-> FALSE, a |-> {}]
A(elems) == [t |-> "array", s |-> "", n |-> 0, b |-> FALSE, a |-> elems]

\* JavaScript truthiness of a scalar
Truthy(v) ==
  CASE v.t = "undefined" -> FALSE
    [] v.t = "string" -> v.s # ""
    [] v.t = "number" -> v.n # 0
    [] v.t = "boolean" -> v.b
    [] OTHER -> TRUE

NoFields == [p \in {} |-> U]
Undefined == [t |-> "undefined", f |-> NoFields]
Obj(fields) == [t |-> "object", f |-> fields]
NotAnObject == [t |-> "string", f |-> NoFields]
Null == [t |-> "null", f |-> NoFields]

\* o.k  (U when the key is absent)
Field(o, path) == IF o.t = "object" /\ path \in DOMAIN o.f THEN o.f[path] ELSE U

\* o.k as an options object of its own (undefined when absent)
Sub(o, k) ==
  IF o.t # "object" \/ <<k>> \notin DOMAIN o.f \/ o.f[<<k>>].t # "object"
  THEN Undefined
  ELSE Obj([p \in {Tail(q) : q \in {r \in DOMAIN o.f : Len(r) > 1 /\ r[1] = k}}
              |-> o.f[<<k>> \o p]])

\* payloads
Str(text) == [t |-> "string", text |-> text]
NotAString == [t |-> "number", text |-> <<>>]
\* a guard that only looks at the type:  typeof x !== 'string'
InvalidPayload_typeOnly(p) == p.t # "string"

\* the guard  !x || typeof x !== 'string'
InvalidPayload(p) == p.text = <<>> \/ p.t # "string"

\* ------------------------------------------------------------- messages

\* An error message: the prefixes put in front of it (outermost first), the
\* option paths a zod error names, and the innermost text.
Msg(pre, fields, text) == [pre |-> pre, fields |-> fields, text |-> text]
Prefixed(p, m) == [m EXCEPT !.pre = <<p>> \o @]
\* `${x.error}` of an absent error
ErrText(e) == IF IsSome(e) THEN Get(e) ELSE Msg(<<>>, {}, "undefined")

Fail(m) == [success |-> FALSE, data |-> None, error |-> Some(m), metadata |-> None]
Ok(d, md) == [success |-> TRUE, data |-> Some(d), error |-> None, metadata |-> Some(md)]

\* -------------------------------------------------------------- schemas

TEnum(vals) == [kind |-> "enum", vals |-> vals, ranged |-> FALSE, min |-> 0, max |-> 0]
TString == [kind |-> "string", vals |-> {}, ranged |-> FALSE, min |-> 0, max |-> 0]
TBoolean == [kind |-> "boolean", vals |-> {}, ranged |-> FALSE, min |-> 0, max |-> 0]
TNumber == [kind |-> "number", vals |-> {}, ranged |-> FALSE, min |-> 0, max |-> 0]
\* a range that leaves its two ends out:  .gt(lo).lt(hi)
TRange_exclusive(lo, hi) ==
  [kind |-> "number", vals |-> {}, ranged |-> TRUE, min |-> lo + 1, max |-> hi - 1]
\* z.number().min(lo).max(hi): both ends belong to the range
TRange(lo, hi) == [kind |-> "number", vals |-> {}, ranged |-> TRUE, min |-> lo, max |-> hi]
TObject == [kind |-> "object", vals |-> {}, ranged |-> FALSE, min |-> 0, max |-> 0]
TArray == [kind |-> "array", vals |-> {}, ranged |-> FALSE, min |-> 0, max |-> 0]

\* every schema field is .optional(): undefined conforms
Conforms(ty, v) ==
  \/ v.t = "undefined"
  \/ CASE ty.kind = "enum" -> v.t = "string" /\ v.s \in ty.vals
       [] ty.kind = "string" -> v.t = "string"
       [] ty.kind = "boolean" -> v.t = "boolean"
       [] ty.kind = "number" -> v.t = "number" /\ (ty.ranged => (ty.min <= v.n /\ v.n <= ty.max))
       [] ty.kind = "object" -> v.t = "object"
       [] ty.kind = "array" -> v.t = "array"
       [] OTHER -> FALSE

PaperFormats == {"A4", "A3", "A2", "A1", "A0", "Legal", "Letter", "Tabloid"}

\* a schema placed under a key of another schema
Under(k, schema) == [p \in {<<k>> \o q : q \in DOMAIN schema} |-> schema[Tail(p)]]

HtmlToPdfOptionsSchema ==
  (<<"format">> :> TEnum(PaperFormats)) @@
  (<<"margin">> :> TObject) @@
  (<<"margin", "top">> :> TString) @@
  (<<"margin", "right">> :> TString) @@
  (<<"margin", "bottom">> :> TString) @@
  (<<"margin", "left">> :> TString) @@
  (<<"printBackground">> :> TBoolean) @@
  (<<"landscape">> :> TBoolean) @@
  (<<"scale">> :> TRange(1, 20)) @@
  (<<"displayHeaderFooter">> :> TBoolean) @@
  (<<"headerTemplate">> :> TString) @@
  (<<"footerTemplate">> :> TString) @@
  (<<"preferCSSPageSize">> :> TBoolean) @@
  (<<"width">> :> TString) @@
  (<<"height">> :> TString)

\* the four sanitizerOptions values are kept as element / entry sets
MarkdownToHtmlOptionsSchema ==
  (<<"sanitize">> :> TBoolean) @@
  (<<"breaks">> :> TBoolean) @@
  (<<"gfm">> :> TBoolean) @@
  (<<"mangle">> :> TBoolean) @@
  (<<"pedantic">> :> TBoolean) @@
  (<<"sanitizerOptions">> :> TObject) @@
  (<<"sanitizerOptions", "allowedTags">> :> TArray) @@
  (<<"sanitizerOptions", "allowedAttributes">> :> TArray) @@
  (<<"sanitizerOptions", "allowedSchemes">> :> TArray) @@
  (<<"sanitizerOptions", "allowedClasses">> :> TArray)

HtmlToDocxOptionsSchema ==
  (<<"orientation">> :> TEnum({"portrait", "landscape"})) @@
  (<<"margins">> :> TObject) @@
  (<<"margins", "top">> :> TNumber) @@
  (<<"margins", "right">> :> TNumber) @@
  (<<"margins", "bottom">> :> TNumber) @@
  (<<"margins", "left">> :> TNumber) @@
  (<<"margins", "header">> :> TNumber) @@
  (<<"margins", "footer">> :> TNumber) @@
  (<<"margins", "gutter">> :> TNumber) @@
  (<<"title">> :> TString) @@
  (<<"subject">> :> TString) @@
  (<<"creator">> :> TString) @@
  (<<"keywords">> :> TString) @@
  (<<"description">> :> TString)

MarkdownToDocxOptionsSchema ==
  MarkdownToHtmlOptionsSchema @@ HtmlToDocxOptionsSchema @@
  (<<"fullDocument">> :> TBoolean) @@
  (<<"cssStyles">> :> TString)

MarkdownToPdfOptionsSchema ==
  (<<"markdownOptions">> :> TObject) @@
  Under("markdownOptions", MarkdownToHtmlOptionsSchema) @@
  (<<"pdfOptions">> :> TObject) @@
  Under("pdfOptions", HtmlToPdfOptionsSchema) @@
  (<<"documentOptions">> :> TObject) @@
  (<<"documentOptions", "title">> :> TString) @@
  (<<"documentOptions", "cssStyles">> :> TString) @@
  (<<"documentOptions", "fullDocument">> :> TBoolean)

\* a validation that only checks that the options are an object
Issues_shapeOnly(schema, o) == IF o.t \in {"undefined", "object"} THEN {} ELSE {<<>>}

\* the option paths zod reports for a value: the whole value (path <<>>)
\* when it is not an object, else every known field of the wrong shape
Issues(schema, o) ==
  CASE o.t = "undefined" -> {}
    [] o.t # "object" -> {<<>>}
    [] OTHER -> {p \in DOMAIN o.f \cap DOMAIN schema : ~Conforms(schema[p], o.f[p])}

\* schema.safeParse(o): unknown keys are stripped from the data
safeParse(schema, o) ==
  LET issues == Issues(schema, o)
  IN [success |-> issues = {},
      issues |-> issues,
      data |-> IF o.t = "object"
               THEN Obj([p \in DOMAIN o.f \cap DOMAIN schema |-> o.f[p]])
               ELSE Undefined]

\* `Invalid options: ${validatedOptions.error.message}`
InvalidOptions(parsed) == Fail(Msg(<<"Invalid options: ">>, parsed.issues, "zod"))

\* { ...defaults, ...data }: a top-level key of data replaces the whole
\* default value of that key
Spread(defaults, data) ==
  IF data.t # "object" THEN defaults
  ELSE LET top == {p[1] : p \in DOMAIN data.f}
           kept == {q \in DOMAIN defaults.f : q[1] \notin top}
       IN Obj([p \in kept \cup DOMAIN data.f |->
                 IF p \in DOMAIN data.f THEN data.f[p] ELSE defaults.f[p]])

\* ---------------------------------------------------------------- texts

\* string.length, counted in chunks
length(text) == Len(text)

RECURSIVE Flatten(_)
Flatten(seqs) == IF seqs = <<>> THEN <<>> ELSE Head(seqs) \o Flatten(Tail(seqs))

\* marked.parse of one block of Markdown, under the parser settings in force.
\* A blank block renders to nothing, raw HTML passes through, a soft line
\* break becomes <br> only when `breaks` is on.
markedBlock(chunk, settings) ==
  CASE chunk = " " -> <<>>
    [] chunk = "# Hi" -> <<"<h1>Hi</h1>">>
    [] chunk = "**bold**" -> <<"<p><strong>bold</strong></p>">>
    [] chunk = "a\nb" -> IF settings.breaks THEN <<"<p>a<br>b</p>">> ELSE <<"<p>a\nb</p>">>
    [] chunk = "~~s~~" -> IF settings.gfm THEN <<"<p><del>s</del></p>">> ELSE <<"<p>~~s~~</p>">>
    [] OTHER -> <<chunk>>

markedParse(markdown, settings) ==
  Flatten([i \in 1..Len(markdown) |-> markedBlock(markdown[i], settings)])

\* the text of a sequence of characters or of strings
RECURSIVE joined(_)
joined(chars) == IF chars = <<>> THEN "" ELSE Head(chars) \o joined(Tail(chars))

\* the parts of a chunk of HTML as the sanitizer's parser reports them: a
\* tag (with the text the sanitizer writes for it when it keeps it: a void
\* element is written self-closed) or a run of text with the element it is
\* directly inside of
Tokens(chunk) ==
  LET tag(name, s) == [tag |-> name, in |-> "", s |-> s]
      text(in, s) == [tag |-> "", in |-> in, s |-> s]
      inP(inner) == <<tag("p", "<p>")>> \o inner \o <<tag("p", "</p>")>>
  IN CASE chunk = "<script>x</script>" ->
            <<tag("script", "<script>"), text("script", "x"), tag("script", "</script>")>>
       [] chunk = "<h1>Hi</h1>" ->
            <<tag("h1", "<h1>"), text("h1", "Hi"), tag("h1", "</h1>")>>
       [] chunk = "<p><strong>bold</strong></p>" ->
            inP(<<tag("strong", "<strong>"), text("strong", "bold"),
                  tag("strong", "</strong>")>>)
       [] chunk = "<p>a<br>b</p>" ->
            inP(<<text("p", "a"), tag("br", "<br />"), text("p", "b")>>)
       [] chunk = "<p>a\nb</p>" -> inP(<<text("p", "a\nb")>>)
       [] chunk = "<p>~~s~~</p>" -> inP(<<text("p", "~~s~~")>>)
       [] chunk = "<p><del>s</del></p>" ->
            inP(<<tag("del", "<del>"), text("del", "s"), tag("del", "</del>")>>)
       [] chunk = "<p>x</p>" -> inP(<<text("p", "x")>>)
       [] OTHER -> <<text("", chunk)>>

\* sanitizeHtml: the tags of an element outside allowedTags are discarded
\* and its text is kept, except that the text of a script, style, textarea
\* or option element is discarded with them
sanitizeHtml(html, policy) ==
  LET allowed == Field(policy, <<"allowedTags">>).a
      keep(t) == IF t.tag # "" THEN t.tag \in allowed
                 ELSE t.in \notin {"script", "style", "textarea", "option"} \ allowed
      kept(chunk) == SelectSeq(Tokens(chunk), keep)
      out(chunk) == joined([k \in 1..Len(kept(chunk)) |-> kept(chunk)[k].s])
  IN Flatten([i \in 1..Len(html) |-> IF out(html[i]) = "" THEN <<>> ELSE <<out(html[i])>>])

DEFAULT_SANITIZER_OPTIONS ==
  Obj((<<"allowedTags">> :> A({"h1", "h2", "h3", "h4", "h5", "h6", "p", "br", "hr",
                               "strong", "em", "u", "s", "b", "i", "ul", "ol", "li",
                               "blockquote", "pre", "code", "a", "img", "table",
                               "thead", "tbody", "tr", "th", "td", "div", "span"})) @@
      (<<"allowedAttributes">> :> A({"a:href", "a:title", "a:target", "img:src", "img:alt",
                               "img:title", "img:width", "img:height", "blockquote:cite",
                               "th:align", "th:colspan", "th:rowspan", "td:align",
                               "td:colspan", "td:rowspan", "div:class", "div:id",
                               "span:class", "span:id", "pre:class", "code:class"})) @@
      (<<"allowedSchemes">> :> A({"http", "https", "mailto"})) @@
      (<<"allowedClasses">> :> A({"pre:language-*", "code:language-*"})))

\* a composer that never looks at the result of its first stage
textStageFailed_unchecked(result) == FALSE

\* !result.success || !result.data  for a text result ('' is falsy) and for
\* a Buffer result (an object, never falsy)
textStageFailed(result) == ~result.success \/ result.data = None \/ result.data = Some(<<>>)
bufferStageFailed(result) == ~result.success \/ result.data = None

\* result.data where the code reads it (undefined prints as 'undefined')
DataOf(result) == IF IsSome(result.data) THEN Get(result.data) ELSE <<"undefined">>

\* error: result.error, without the fallback
errorOr_noFallback(error, fallback) == error

\* error: result.error || fallback
errorOr(error, fallback) == IF IsSome(error) THEN error ELSE Some(Msg(<<>>, {}, fallback))

\* { success: false, error }
FailWith(error) == [success |-> FALSE, data |-> None, error |-> error, metadata |-> None]

\* x || fallback  on an option value
OrElse(v, fallback) == IF Truthy(v) THEN v ELSE fallback

\* ---------------------------------------------------------------- state

VARIABLES
  stack,      \* per request: the frames of the async functions in progress
  ret,        \* per request: the value the last returned function resolved to
  req,        \* per request: the top-level function called and its arguments
  callId,     \* per request: the number of the call it is serving (0: idle)
  health,     \* per request: the step at which the rendering engine fails
  trace,      \* per request: the calls made so far, in order
  engines,    \* the rendering-engine instances launched so far
  started,    \* calls started so far
  fs,         \* the filesystem: the files with their content, the directories
  answered,   \* per call answered so far, in order: whether it succeeded
  sse,        \* the HTTP server's transport slot, the event streams opened
              \* so far and the messages posted so far
  marked      \* the Markdown parser's settings, one object for the process

vars == <<stack, ret, req, callId, health, trace, engines, started, fs, answered, sse, marked>>

\* a wrap that writes the caller's CSS before the default stylesheet
createFullHtmlDocument_callerCssFirst(htmlContent, title, cssStyles) ==
  <<"<!DOCTYPE html>", "<html lang=\"en\">", "<head>", "<meta charset=\"UTF-8\">",
    "<meta name=\"viewport\">", "<title>">>
  \o <<IF title.t = "undefined" THEN "Document" ELSE title.s>>
  \o <<"</title>", "<style>">>
  \o (IF Truthy(cssStyles) THEN <<cssStyles.s>> ELSE <<>>)
  \o <<"defaultStyles", "</style>", "</head>", "<body>">>
  \o htmlContent
  \o <<"</body>", "</html>">>

\* createFullHtmlDocument(htmlContent, title = 'Document', cssStyles)
createFullHtmlDocument(htmlContent, title, cssStyles) ==
  <<"<!DOCTYPE html>", "<html lang=\"en\">", "<head>", "<meta charset=\"UTF-8\">",
    "<meta name=\"viewport\">", "<title>">>
  \o <<IF title.t = "undefined" THEN "Document" ELSE title.s>>
  \o <<"</title>", "<style>", "defaultStyles">>
  \o (IF Truthy(cssStyles) THEN <<cssStyles.s>> ELSE <<>>)
  \o <<"</style>", "</head>", "<body>">>
  \o htmlContent
  \o <<"</body>", "</html>">>

\* the settings of the parser before any setOptions call
MarkedDefaults == [breaks |-> FALSE, gfm |-> TRUE, pedantic |-> FALSE]

\* an entry of a request's trace: a call of an external collaborator, the
\* call of one of the converter functions, or its return
Ev(e, x) == [e |-> e, x |-> x]
CallOf(fn, a) == [e |-> "call", x |-> fn, a |-> a]
Returns(fn, r) == [e |-> "return", x |-> fn, r |-> r]
Frame(fn, a, l) == [fn |-> fn, pc |-> "start", a |-> a, l |-> l]

Idle(c) == callId[c] = 0
Running(c) == stack[c] # <<>>
Returned(c) == callId[c] # 0 /\ stack[c] = <<>> /\ IsSome(ret[c])
Top(c) == stack[c][Len(stack[c])]
At(c, fn, pc) == Running(c) /\ Top(c).fn = fn /\ Top(c).pc = pc
Result(c) == Get(ret[c])

\* the events of a request with a given name
Did(c, e) == \E i \in 1..Len(trace[c]) : trace[c][i].e = e

\* the function returns r
Return(c, r, evs) ==
  /\ stack' = [stack EXCEPT ![c] = SubSeq(@, 1, Len(@) - 1)]
  /\ ret' = [ret EXCEPT ![c] = Some(r)]
  /\ trace' = [trace EXCEPT ![c] = @ \o evs \o <<Returns(Top(c).fn, r)>>]

\* the function goes on at pc with locals l
Goto(c, pc, l, evs) ==
  /\ stack' = [stack EXCEPT ![c] = [@ EXCEPT ![Len(@)] = [@ EXCEPT !.pc = pc, !.l = l]]]
  /\ trace' = [trace EXCEPT ![c] = @ \o evs]
  /\ UNCHANGED ret

\* the function awaits fn(a) and goes on at pc with locals l
Await(c, pc, l, fn, a, evs) ==
  /\ stack' = [stack EXCEPT ![c] =
       Append([@ EXCEPT ![Len(@)] = [@ EXCEPT !.pc = pc, !.l = l]], Frame(fn, a, [none |-> TRUE]))]
  /\ trace' = [trace EXCEPT ![c] = @ \o evs \o <<CallOf(fn, a)>>]
  /\ UNCHANGED ret

\* a path: its directory, its base name and its extension as written
Path(dir, base, ext) == [dir |-> dir, base |-> base, ext |-> ext]

\* the files and directories present when the server starts
InitialFs ==
  [files |-> (Path("in", "doc", <<".", "m", "d">>) :> <<"# Hi">>) @@
             (Path("in", "DOC", <<".", "M", "D">>) :> <<"**bold**">>) @@
             (Path("in", "page", <<".", "h", "t", "m", "l">>) :> <<"<p>x</p>">>) @@
             (Path("in", "old", <<".", "H", "t", "m">>) :> <<"<p>x</p>">>) @@
             (Path("in", "readme", <<".", "m", "a", "r", "k", "d", "o", "w", "n">>) :> <<"# Hi">>) @@
             (Path("in", "empty", <<".", "m", "d">>) :> <<>>) @@
             (Path("in", "notes", <<".", "t", "x", "t">>) :> <<"# Hi">>),
   dirs |-> {"in", "out"}]

Init ==
  /\ stack = [c \in Calls |-> <<>>]
  /\ ret = [c \in Calls |-> None]
  /\ req = [c \in Calls |-> [fn |-> "none"]]
  /\ callId = [c \in Calls |-> 0]
  /\ health = [c \in Calls |-> "ok"]
  /\ trace = [c \in Calls |-> <<>>]
  /\ engines = <<>>
  /\ started = 0
  /\ fs = InitialFs
  /\ answered = <<>>
  /\ sse = [transport |-> 0, streams |-> <<>>, posts |-> <<>>]
  /\ marked = MarkedDefaults

\* ------------------------------------------- MarkdownToHtmlConverter

\* marked.setOptions({breaks: opts.breaks || false, gfm: opts.gfm !== false,
\*                    pedantic: opts.pedantic || false})
markedSettings(opts) ==
  [breaks |-> Truthy(Field(opts, <<"breaks">>)),
   gfm |-> Field(opts, <<"gfm">>) # B(FALSE),
   pedantic |-> Truthy(Field(opts, <<"pedantic">>))]

\* a merge that adds the caller's entries to the default entries of a key
sanitizerOptions_perKeyUnion(opts) ==
  LET given == Sub(opts, "sanitizerOptions")
  IN Obj([p \in DOMAIN DEFAULT_SANITIZER_OPTIONS.f |->
            IF given.t = "object" /\ p \in DOMAIN given.f
            THEN A(DEFAULT_SANITIZER_OPTIONS.f[p].a \cup given.f[p].a)
            ELSE DEFAULT_SANITIZER_OPTIONS.f[p]])

\* { ...DEFAULT_SANITIZER_OPTIONS, ...opts.sanitizerOptions }
sanitizerOptions(opts) == Spread(DEFAULT_SANITIZER_OPTIONS, Sub(opts, "sanitizerOptions"))

MdInvalidInput == Fail(Msg(<<>>, {}, "Invalid markdown input: Markdown must be a non-empty string"))

\* settings a parse would see if it ran on what was there before setOptions
settingsInForce_before(written, before) == before

\* the settings marked.parse(markdown) reads: it is called in the same
\* synchronous run as marked.setOptions, so it reads what that call wrote
settingsInForce(written, before) == written

\* up to the await of marked.parse: marked.setOptions writes the three
\* settings into the parser's one settings object, then marked.parse runs
convertMarkdownToHtml_parse(c) ==
  /\ At(c, "convertMarkdownToHtml", "start")
  /\ UNCHANGED <<req, callId, health, engines, started, fs, answered, sse>>
  /\ LET a == Top(c).a
         parsed == safeParse(MarkdownToHtmlOptionsSchema, a.options)
         opts == parsed.data
         written == markedSettings(opts)
         used == settingsInForce(written, marked)
         evs == <<Ev("safeParse", "md"), Ev("marked.setOptions", written),
                  Ev("marked.parse", used)>>
     IN IF InvalidPayload(a.payload) THEN marked' = marked /\ Return(c, MdInvalidInput, <<>>)
        ELSE IF ~parsed.success
        THEN marked' = marked /\ Return(c, InvalidOptions(parsed), <<Ev("safeParse", "md")>>)
        ELSE /\ marked' = written
             /\ \E threw \in BOOLEAN :
                  IF threw
                  THEN Return(c, Fail(Msg(<<"Markdown conversion failed: ">>, {}, "marked threw")),
                              evs)
                  ELSE Goto(c, "parsed", [opts |-> opts, html |-> markedParse(a.payload.text, used)],
                            evs)

\* metadata whose flag was left at its initial value
markdownMetadata_flagNotSet(markdown, html, sanitized) ==
  [originalLength |-> length(markdown), htmlLength |-> length(html), sanitized |-> FALSE]

\* metadata: { originalLength: markdown.length, htmlLength: html.length, sanitized }
markdownMetadata(markdown, html, sanitized) ==
  [originalLength |-> length(markdown), htmlLength |-> length(html), sanitized |-> sanitized]

\* after the await: sanitize and return
convertMarkdownToHtml_finish(c) ==
  /\ At(c, "convertMarkdownToHtml", "parsed")
  /\ UNCHANGED <<req, callId, health, engines, started, fs, answered, sse, marked>>
  /\ LET a == Top(c).a
         l == Top(c).l
         meta(html, sanitized) == markdownMetadata(a.payload.text, html, sanitized)
     IN IF Truthy(Field(l.opts, <<"sanitize">>))
        THEN \E threw \in BOOLEAN :
               IF threw
               THEN Return(c, Fail(Msg(<<"Markdown conversion failed: ">>, {}, "sanitizer threw")),
                           <<Ev("sanitizeHtml", sanitizerOptions(l.opts))>>)
               ELSE LET html == sanitizeHtml(l.html, sanitizerOptions(l.opts))
                    IN Return(c, Ok(html, meta(html, TRUE)),
                              <<Ev("sanitizeHtml", sanitizerOptions(l.opts))>>)
        ELSE Return(c, Ok(l.html, meta(l.html, FALSE)), <<>>)

convertMarkdownToHtml(c) ==
  \/ convertMarkdownToHtml_parse(c)
  \/ convertMarkdownToHtml_finish(c)

\* ----------------------------------------------- HtmlToPdfConverter

PDF_DEFAULT_OPTIONS ==
  Obj((<<"format">> :> S("A4")) @@
      (<<"margin">> :> O) @@
      (<<"margin", "top">> :> S("1cm")) @@
      (<<"margin", "right">> :> S("1cm")) @@
      (<<"margin", "bottom">> :> S("1cm")) @@
      (<<"margin", "left">> :> S("1cm")) @@
      (<<"printBackground">> :> B(TRUE)) @@
      (<<"displayHeaderFooter">> :> B(FALSE)) @@
      (<<"preferCSSPageSize">> :> B(FALSE)))

\* the steps of a render at which the engine can fail
EngineSteps == {"launch", "newPage", "load", "pdf"}
\* browser.close(): resolves, or rejects with the process gone or still there
CloseOutcomes == {"closed", "threwClosed", "threwOpen"}

PdfInvalidInput(fn) ==
  IF fn = "convertHtmlToPdf"
  THEN Fail(Msg(<<>>, {}, "Invalid HTML input: HTML must be a non-empty string"))
  ELSE Fail(Msg(<<>>, {}, "Invalid URL input: URL must be a non-empty string"))

\* the catch block of the two functions
PdfFailed(fn, what) ==
  IF fn = "convertHtmlToPdf"
  THEN Fail(Msg(<<"PDF generation failed: ">>, {}, what))
  ELSE Fail(Msg(<<"PDF generation from URL failed: ">>, {}, what))

\* the bytes page.pdf() resolves to
pdfBuffer(content) == <<"%PDF">> \o content

\* a `browser` variable shared by the calls: the instance launched last
BrowserOf_shared(c) == Len(engines)

\* the instance the local variable `browser` of the running function holds
BrowserOf(c) == Get(Top(c).l.browser)

\* finally { if (browser) ... }
finallyCloses(l) == IsSome(l.browser)

Use(c, b) == [engines EXCEPT ![b] = [@ EXCEPT !.users = @ \cup {callId[c]}]]

\* the guard, the option validation and the merge with the defaults
Pdf_validate(c, fn) ==
  /\ At(c, fn, "start")
  /\ UNCHANGED <<req, callId, health, engines, started, fs, answered, sse, marked>>
  /\ LET a == Top(c).a
         parsed == safeParse(HtmlToPdfOptionsSchema, a.options)
     IN IF InvalidPayload(a.payload) THEN Return(c, PdfInvalidInput(fn), <<>>)
        ELSE IF ~parsed.success THEN Return(c, InvalidOptions(parsed), <<Ev("safeParse", "pdf")>>)
        ELSE Goto(c, "launch",
                  [browser |-> None, result |-> None,
                   pdfOptions |-> Spread(PDF_DEFAULT_OPTIONS, parsed.data)],
                  <<Ev("safeParse", "pdf")>>)

\* browser = await puppeteer.launch(LAUNCH_OPTIONS)
Pdf_launch(c, fn) ==
  /\ At(c, fn, "launch")
  /\ UNCHANGED <<req, callId, health, started, fs, answered, sse, marked>>
  /\ IF health[c] = "launch"
     THEN /\ Goto(c, "finally", [Top(c).l EXCEPT !.result = Some(PdfFailed(fn, "launch failed"))],
                  <<Ev("puppeteer.launch", 0)>>)
          /\ UNCHANGED engines
     ELSE /\ engines' = Append(engines, [owner |-> callId[c], state |-> "open",
                                         users |-> {}, closers |-> {},
                                         closeThrew |-> FALSE])
          /\ Goto(c, "newPage", [Top(c).l EXCEPT !.browser = Some(Len(engines) + 1)],
                  <<Ev("puppeteer.launch", Len(engines) + 1)>>)

\* const page = await browser.newPage()
Pdf_newPage(c, fn) ==
  /\ At(c, fn, "newPage")
  /\ UNCHANGED <<req, callId, health, started, fs, answered, sse, marked>>
  /\ engines' = Use(c, BrowserOf(c))
  /\ IF health[c] = "newPage"
     THEN Goto(c, "finally", [Top(c).l EXCEPT !.result = Some(PdfFailed(fn, "newPage failed"))],
               <<Ev("browser.newPage", BrowserOf(c))>>)
     ELSE Goto(c, "load", Top(c).l, <<Ev("browser.newPage", BrowserOf(c))>>)

\* await page.setContent(html, ...)  /  await page.goto(url, ...)
Pdf_load(c, fn) ==
  /\ At(c, fn, "load")
  /\ UNCHANGED <<req, callId, health, started, fs, answered, sse, marked>>
  /\ engines' = Use(c, BrowserOf(c))
  /\ LET e == IF fn = "convertHtmlToPdf" THEN "page.setContent" ELSE "page.goto"
     IN IF health[c] = "load"
        THEN Goto(c, "finally", [Top(c).l EXCEPT !.result = Some(PdfFailed(fn, "load failed"))],
                  <<Ev(e, Top(c).a.payload.text)>>)
        ELSE Goto(c, "pdf", Top(c).l, <<Ev(e, Top(c).a.payload.text)>>)

\* const pdfBuffer = await page.pdf(pdfOptions); return {success: true, ...}
Pdf_render(c, fn) ==
  /\ At(c, fn, "pdf")
  /\ UNCHANGED <<req, callId, health, started, fs, answered, sse, marked>>
  /\ engines' = Use(c, BrowserOf(c))
  /\ LET buf == pdfBuffer(Top(c).a.payload.text)
     IN IF health[c] = "pdf"
        THEN Goto(c, "finally", [Top(c).l EXCEPT !.result = Some(PdfFailed(fn, "pdf failed"))],
                  <<Ev("page.pdf", Top(c).l.pdfOptions)>>)
        ELSE Goto(c, "finally",
                  [Top(c).l EXCEPT !.result = Some(Ok(buf, [size |-> length(buf)]))],
                  <<Ev("page.pdf", Top(c).l.pdfOptions)>>)

\* finally { if (browser) { try { await browser.close() } catch { log } } }
Pdf_finally(c, fn) ==
  /\ At(c, fn, "finally")
  /\ UNCHANGED <<req, callId, health, started, fs, answered, sse, marked>>
  /\ IF finallyCloses(Top(c).l)
     THEN \E out \in CloseOutcomes :
            /\ engines' = [engines EXCEPT ![BrowserOf(c)] =
                 [@ EXCEPT !.closers = @ \cup {callId[c]},
                           !.closeThrew = out # "closed",
                           !.state = IF out = "threwOpen" THEN @ ELSE "closed"]]
            /\ Return(c, Get(Top(c).l.result), <<Ev("browser.close", BrowserOf(c))>>)
     ELSE /\ UNCHANGED engines
          /\ Return(c, Get(Top(c).l.result), <<>>)

PdfStage(c, fn) ==
  \/ Pdf_validate(c, fn)
  \/ Pdf_launch(c, fn)
  \/ Pdf_newPage(c, fn)
  \/ Pdf_load(c, fn)
  \/ Pdf_render(c, fn)
  \/ Pdf_finally(c, fn)

convertHtmlToPdf(c) == PdfStage(c, "convertHtmlToPdf")

convertUrlToPdf(c) == PdfStage(c, "convertUrlToPdf")

\* ------------------------------------------- MarkdownToPdfConverter

\* validation, then Step 1: await convertMarkdownToHtml(markdown, opts.markdownOptions)
convertMarkdownToPdf_start(c) ==
  /\ At(c, "convertMarkdownToPdf", "start")
  /\ UNCHANGED <<req, callId, health, engines, started, fs, answered, sse, marked>>
  /\ LET a == Top(c).a
         parsed == safeParse(MarkdownToPdfOptionsSchema, a.options)
         opts == IF parsed.data.t = "object" THEN parsed.data ELSE Obj(NoFields)
     IN IF InvalidPayload(a.payload) THEN Return(c, MdInvalidInput, <<>>)
        ELSE IF ~parsed.success THEN Return(c, InvalidOptions(parsed), <<Ev("safeParse", "md2pdf")>>)
        ELSE Await(c, "afterHtml", [opts |-> opts],
                   "convertMarkdownToHtml",
                   [payload |-> a.payload, options |-> Sub(opts, "markdownOptions")],
                   <<Ev("safeParse", "md2pdf")>>)

\* the check of Step 1's result, the full-document wrap, then
\* Step 2: await convertHtmlToPdf(html, opts.pdfOptions)
convertMarkdownToPdf_afterHtml(c) ==
  /\ At(c, "convertMarkdownToPdf", "afterHtml")
  /\ UNCHANGED <<req, callId, health, engines, started, fs, answered, sse, marked>>
  /\ LET htmlResult == Result(c)
         opts == Top(c).l.opts
         doc == Sub(opts, "documentOptions")
         shouldCreateFullDocument == Field(doc, <<"fullDocument">>) # B(FALSE)
         html == IF shouldCreateFullDocument
                 THEN createFullHtmlDocument(DataOf(htmlResult),
                                             OrElse(Field(doc, <<"title">>), S("Document")),
                                             Field(doc, <<"cssStyles">>))
                 ELSE DataOf(htmlResult)
     IN IF textStageFailed(htmlResult)
        THEN Return(c, Fail(Prefixed("Markdown to HTML conversion failed: ",
                                     ErrText(htmlResult.error))), <<>>)
        ELSE Await(c, "afterPdf", [opts |-> opts, htmlResult |-> htmlResult, html |-> html],
                   "convertHtmlToPdf",
                   [payload |-> Str(html), options |-> Sub(opts, "pdfOptions")],
                   <<>>)

\* the check of Step 2's result and the merged metadata
convertMarkdownToPdf_afterPdf(c) ==
  /\ At(c, "convertMarkdownToPdf", "afterPdf")
  /\ UNCHANGED <<req, callId, health, engines, started, fs, answered, sse, marked>>
  /\ LET pdfResult == Result(c)
         l == Top(c).l
     IN IF bufferStageFailed(pdfResult)
        THEN Return(c, Fail(Prefixed("HTML to PDF conversion failed: ",
                                     ErrText(pdfResult.error))), <<>>)
        ELSE Return(c, Ok(Get(pdfResult.data),
                          [markdownLength |-> length(Top(c).a.payload.text),
                           htmlLength |-> length(l.html),
                           pdfSize |-> length(Get(pdfResult.data)),
                           sanitized |-> Get(l.htmlResult.metadata).sanitized]), <<>>)

convertMarkdownToPdf(c) ==
  \/ convertMarkdownToPdf_start(c)
  \/ convertMarkdownToPdf_afterHtml(c)
  \/ convertMarkdownToPdf_afterPdf(c)

\* ---------------------------------------------- HtmlToDocxConverter

\* margins in twips, kept like every number in tenths (1440 twips)
DOCX_DEFAULT_OPTIONS ==
  Obj((<<"orientation">> :> S("portrait")) @@
      (<<"margins">> :> O) @@
      (<<"margins", "top">> :> N(14400)) @@
      (<<"margins", "right">> :> N(14400)) @@
      (<<"margins", "bottom">> :> N(14400)) @@
      (<<"margins", "left">> :> N(14400)))

\* the chunks in which a marker occurs
Containing(marker) ==
  CASE marker = "<html" -> {"<html>", "<html lang=\"en\">"}
    [] marker = "<head" -> {"<head>", "<head lang=\"en\">", "<header>"}
    [] marker = "<head>" -> {"<head>"}

\* html.includes(marker)
includes(html, marker) == \E i \in 1..Len(html) : html[i] \in Containing(marker)

MetaFields == <<"title", "subject", "creator", "keywords", "description">>

\* the element pushed on headContent for a field
MetaElement(field, value) ==
  IF field = "title" THEN <<"<title>", value, "</title>">>
  ELSE <<"<meta name=", field, "content=", value, ">">>

\* the condition under which metadata is prepared
injectsMetadata(docxOptions) ==
  \/ Truthy(Field(docxOptions, <<"title">>))
  \/ Truthy(Field(docxOptions, <<"subject">>))
  \/ Truthy(Field(docxOptions, <<"creator">>))

headContent(docxOptions) ==
  Flatten([i \in 1..Len(MetaFields) |->
             IF Truthy(Field(docxOptions, <<MetaFields[i]>>))
             THEN MetaElement(MetaFields[i], Field(docxOptions, <<MetaFields[i]>>).s)
             ELSE <<>>])

\* the replacement pattern of a dollar sign and a grave accent, which a
\* string of this notation cannot hold
DollarGrave == "$<grave accent>"

\* what String.prototype.replace puts in for a replacement string: '$$' is a
\* dollar sign, '$&' the matched text, "$'" the text after the match and
\* dollar-grave the text before it; everything else is literal (the pattern
\* is a string, so there are no groups for $1 or $<name>)
replacementText(replacement, matched, before, after) ==
  Flatten([i \in 1..Len(replacement) |->
             CASE replacement[i] = "$&" -> <<matched>>
               [] replacement[i] = "$$" -> <<"$">>
               [] replacement[i] = "$'" -> after
               [] replacement[i] = DollarGrave -> before
               [] OTHER -> <<replacement[i]>>])

\* html.replace('<head>', '<head>' + head): the first occurrence only
replaceHead(html, head) ==
  IF ~\E i \in 1..Len(html) : html[i] \in Containing("<head>") THEN html
  ELSE LET i == CHOOSE k \in 1..Len(html) :
                  /\ html[k] \in Containing("<head>")
                  /\ \A j \in 1..(k - 1) : html[j] \notin Containing("<head>")
           before == SubSeq(html, 1, i - 1)
           after == SubSeq(html, i + 1, Len(html))
       IN before \o replacementText(<<"<head>">> \o head, "<head>", before, after) \o after

\* the HTML handed to asBlob
processedHtml(html, docxOptions) ==
  IF ~injectsMetadata(docxOptions) THEN html
  ELSE IF ~includes(html, "<html") /\ ~includes(html, "<head")
  THEN <<"<!DOCTYPE html>", "<html>", "<head>">> \o headContent(docxOptions)
       \o <<"</head>", "<body>">> \o html \o <<"</body>", "</html>">>
  ELSE IF includes(html, "<head>") THEN replaceHead(html, headContent(docxOptions))
  ELSE html

\* the options handed to asBlob: orientation and margins, each when set
libOptions(docxOptions) ==
  LET keys == {k \in {"orientation", "margins"} : Truthy(Field(docxOptions, <<k>>))}
  IN Obj([p \in {q \in DOMAIN docxOptions.f : q[1] \in keys} |-> docxOptions.f[p]])

\* what asBlob returns: a Buffer, a Blob, something else, or it throws
AsBlobOutcomes == {"buffer", "blob", "other", "throw"}

docxBuffer(html) == <<"PK">> \o html

HtmlInvalidInput == Fail(Msg(<<>>, {}, "Invalid HTML input: HTML must be a non-empty string"))
DocxFailed(what) == Fail(Msg(<<"DOCX generation failed: ">>, {}, what))

\* the whole function up to the value asBlob returns
convertHtmlToDocx_emit(c) ==
  /\ At(c, "convertHtmlToDocx", "start")
  /\ UNCHANGED <<req, callId, health, engines, started, fs, answered, sse, marked>>
  /\ LET a == Top(c).a
         parsed == safeParse(HtmlToDocxOptionsSchema, a.options)
         docxOptions == Spread(DOCX_DEFAULT_OPTIONS, parsed.data)
         html == processedHtml(a.payload.text, docxOptions)
         ev == <<Ev("safeParse", "docx"), Ev("asBlob", [html |-> html, options |-> libOptions(docxOptions)])>>
         buf == docxBuffer(html)
     IN IF InvalidPayload(a.payload) THEN Return(c, HtmlInvalidInput, <<>>)
        ELSE IF ~parsed.success THEN Return(c, InvalidOptions(parsed), <<Ev("safeParse", "docx")>>)
        ELSE \E out \in AsBlobOutcomes :
               CASE out = "buffer" -> Return(c, Ok(buf, [size |-> length(buf)]), ev)
                 [] out = "blob" -> Goto(c, "blob", [buf |-> buf], ev)
                 [] out = "other" -> Return(c, DocxFailed("Unexpected return type from html-docx-js"), ev)
                 [] out = "throw" -> Return(c, DocxFailed("asBlob threw"), ev)

\* after await docxResult.arrayBuffer()
convertHtmlToDocx_blob(c) ==
  /\ At(c, "convertHtmlToDocx", "blob")
  /\ UNCHANGED <<req, callId, health, engines, started, fs, answered, sse, marked>>
  /\ Return(c, Ok(Top(c).l.buf, [size |-> length(Top(c).l.buf)]), <<Ev("blob.arrayBuffer", 0)>>)

convertHtmlToDocx(c) ==
  \/ convertHtmlToDocx_emit(c)
  \/ convertHtmlToDocx_blob(c)

\* what fetch(url) resolves to
FetchOutcomes == {"ok", "notOk", "throw"}
\* the bodies a fetched page can have
FetchedPages == {<<>>, <<"<p>x</p>">>}

convertUrlToDocx_start(c) ==
  /\ At(c, "convertUrlToDocx", "start")
  /\ UNCHANGED <<req, callId, health, engines, started, fs, answered, sse, marked>>
  /\ IF InvalidPayload(Top(c).a.payload)
     THEN Return(c, Fail(Msg(<<>>, {}, "Invalid URL input: URL must be a non-empty string")), <<>>)
     ELSE Goto(c, "fetch", Top(c).l, <<Ev("fetch", Top(c).a.payload.text)>>)

\* after await fetch(url): the response is tested and its body is asked for
convertUrlToDocx_fetched(c) ==
  /\ At(c, "convertUrlToDocx", "fetch")
  /\ UNCHANGED <<req, callId, health, engines, started, fs, answered, sse, marked>>
  /\ \E out \in FetchOutcomes :
       CASE out = "throw" ->
              Return(c, Fail(Msg(<<"DOCX generation from URL failed: ">>, {}, "fetch threw")), <<>>)
         [] out = "notOk" ->
              Return(c, Fail(Msg(<<"Failed to fetch URL: ">>, {}, "404 Not Found")), <<>>)
         [] out = "ok" -> Goto(c, "text", Top(c).l, <<Ev("response.text", 0)>>)

\* after await response.text(): the body is handed to convertHtmlToDocx, or
\* reading it failed
convertUrlToDocx_text(c) ==
  /\ At(c, "convertUrlToDocx", "text")
  /\ UNCHANGED <<req, callId, health, engines, started, fs, answered, sse, marked>>
  /\ \/ \E page \in FetchedPages :
          Await(c, "afterDocx", Top(c).l, "convertHtmlToDocx",
                [payload |-> Str(page), options |-> Top(c).a.options], <<>>)
     \/ Return(c, Fail(Msg(<<"DOCX generation from URL failed: ">>, {}, "body threw")), <<>>)

\* return await f(...): the inner result is returned as it is
ReturnInner(c, fn) ==
  /\ At(c, fn, "afterInner")
  /\ UNCHANGED <<req, callId, health, engines, started, fs, answered, sse, marked>>
  /\ Return(c, Result(c), <<>>)

convertUrlToDocx_return(c) ==
  /\ At(c, "convertUrlToDocx", "afterDocx")
  /\ UNCHANGED <<req, callId, health, engines, started, fs, answered, sse, marked>>
  /\ Return(c, Result(c), <<>>)

convertUrlToDocx(c) ==
  \/ convertUrlToDocx_start(c)
  \/ convertUrlToDocx_fetched(c)
  \/ convertUrlToDocx_text(c)
  \/ convertUrlToDocx_return(c)

\* ------------------------------------------ MarkdownToDocxConverter

\* an object literal {k: opts.k, ...}: every key is set, to undefined when
\* opts has no such key
Pick(opts, keys) ==
  Obj([p \in {<<k>> : k \in keys} \cup {q \in DOMAIN opts.f : Len(q) > 1 /\ q[1] \in keys}
         |-> Field(opts, p)])

MarkdownKeys == {"sanitize", "breaks", "gfm", "mangle", "pedantic", "sanitizerOptions"}
DocxKeys == {"orientation", "margins", "title", "subject", "creator", "keywords", "description"}

\* a metadata that always measures what the composer holds itself
NumOrElse_fallbackOnly(x, fallback) == fallback

\* x || fallback  on a number
NumOrElse(x, fallback) == IF x # 0 THEN x ELSE fallback

convertMarkdownToDocx_start(c) ==
  /\ At(c, "convertMarkdownToDocx", "start")
  /\ UNCHANGED <<req, callId, health, engines, started, fs, answered, sse, marked>>
  /\ LET a == Top(c).a
         parsed == safeParse(MarkdownToDocxOptionsSchema, a.options)
         opts == IF parsed.data.t = "object" THEN parsed.data ELSE Obj(NoFields)
     IN IF InvalidPayload(a.payload) THEN Return(c, MdInvalidInput, <<>>)
        ELSE IF ~parsed.success THEN Return(c, InvalidOptions(parsed), <<Ev("safeParse", "md2docx")>>)
        ELSE Await(c, "afterHtml", [opts |-> opts],
                   "convertMarkdownToHtml",
                   [payload |-> a.payload, options |-> Pick(opts, MarkdownKeys)],
                   <<Ev("safeParse", "md2docx")>>)

convertMarkdownToDocx_afterHtml(c) ==
  /\ At(c, "convertMarkdownToDocx", "afterHtml")
  /\ UNCHANGED <<req, callId, health, engines, started, fs, answered, sse, marked>>
  /\ LET htmlResult == Result(c)
         opts == Top(c).l.opts
         title == OrElse(Field(opts, <<"title">>), S("Document"))
         html == IF Field(opts, <<"fullDocument">>) # B(FALSE)
                 THEN createFullHtmlDocument(DataOf(htmlResult), title,
                                             Field(opts, <<"cssStyles">>))
                 ELSE DataOf(htmlResult)
     IN IF textStageFailed(htmlResult)
        THEN Return(c, FailWith(errorOr(htmlResult.error, "Failed to convert markdown to HTML")), <<>>)
        ELSE Await(c, "afterDocx", [opts |-> opts, htmlResult |-> htmlResult, html |-> html],
                   "convertHtmlToDocx",
                   [payload |-> Str(html), options |-> Pick(opts, DocxKeys)],
                   <<>>)

convertMarkdownToDocx_afterDocx(c) ==
  /\ At(c, "convertMarkdownToDocx", "afterDocx")
  /\ UNCHANGED <<req, callId, health, engines, started, fs, answered, sse, marked>>
  /\ LET docxResult == Result(c)
         l == Top(c).l
         md == Get(l.htmlResult.metadata)
     IN IF bufferStageFailed(docxResult)
        THEN Return(c, FailWith(errorOr(docxResult.error, "Failed to convert HTML to DOCX")), <<>>)
        ELSE Return(c, Ok(Get(docxResult.data),
                          [size |-> length(Get(docxResult.data)),
                           originalLength |-> NumOrElse(md.originalLength,
                                                        length(Top(c).a.payload.text)),
                           htmlLength |-> NumOrElse(md.htmlLength, length(l.html)),
                           sanitized |-> md.sanitized]), <<>>)

convertMarkdownToDocx(c) ==
  \/ convertMarkdownToDocx_start(c)
  \/ convertMarkdownToDocx_afterHtml(c)
  \/ convertMarkdownToDocx_afterDocx(c)

\* ------------------------------------------------ the file variants

FileFns == {"convertHtmlFileToPdf", "convertMarkdownFileToHtml", "convertMarkdownFileToPdf",
            "convertHtmlFileToDocx", "convertMarkdownFileToDocx"}

\* the converter a file variant hands the file's content to
InnerOf(fn) ==
  CASE fn = "convertHtmlFileToPdf" -> "convertHtmlToPdf"
    [] fn = "convertMarkdownFileToHtml" -> "convertMarkdownToHtml"
    [] fn = "convertMarkdownFileToPdf" -> "convertMarkdownToPdf"
    [] fn = "convertHtmlFileToDocx" -> "convertHtmlToDocx"
    [] fn = "convertMarkdownFileToDocx" -> "convertMarkdownToDocx"

ReadFailed(fn) ==
  IF fn \in {"convertHtmlFileToPdf", "convertHtmlFileToDocx"}
  THEN Fail(Msg(<<"Failed to read HTML file: ">>, {}, "ENOENT"))
  ELSE Fail(Msg(<<"Failed to read markdown file: ">>, {}, "ENOENT"))

\* const { promises: fs } = await import('fs'): the function waits for the module
convertFile_start(c, fn) ==
  /\ At(c, fn, "start")
  /\ UNCHANGED <<req, callId, health, engines, started, fs, answered, sse, marked>>
  /\ Goto(c, "import", Top(c).l, <<>>)

\* the module is there: fs.readFile(filePath, 'utf-8') is started and awaited
convertFile_imported(c, fn) ==
  /\ At(c, fn, "import")
  /\ UNCHANGED <<req, callId, health, engines, started, fs, answered, sse, marked>>
  /\ Goto(c, "read", Top(c).l, <<>>)

\* after await fs.readFile(...): return await inner(text, options), or the
\* catch block when the read failed
convertFile_read(c, fn) ==
  /\ At(c, fn, "read")
  /\ UNCHANGED <<req, callId, health, engines, started, fs, answered, sse, marked>>
  /\ LET a == Top(c).a
     IN IF a.payload \in DOMAIN fs.files
        THEN Await(c, "afterInner", Top(c).l, InnerOf(fn),
                   [payload |-> Str(fs.files[a.payload]), options |-> a.options],
                   <<Ev("fs.readFile", a.payload)>>)
        ELSE Return(c, ReadFailed(fn), <<Ev("fs.readFile", a.payload)>>)

convertFile(c) ==
  \E fn \in FileFns :
    \/ convertFile_start(c, fn)
    \/ convertFile_imported(c, fn)
    \/ convertFile_read(c, fn)
    \/ ReturnInner(c, fn)

\* ------------------------------------ convertMultipleMarkdownToPdf

PageBreak == <<"\n\n", "<div style=\"page-break-after: always;\"></div>", "\n\n">>

\* a loop that puts the page break after every section, the last included
sectionMarkdown_breakAfterEach(section, last) ==
  (IF Truthy(section.title) THEN <<"# ", section.title.s, "\n\n">> ELSE <<>>)
  \o section.content.text
  \o PageBreak

\* what one pass of the loop appends to combinedMarkdown
sectionMarkdown(section, last) ==
  (IF Truthy(section.title) THEN <<"# ", section.title.s, "\n\n">> ELSE <<>>)
  \o section.content.text
  \o (IF last THEN <<>> ELSE PageBreak)

combinedMarkdown(items) ==
  Flatten([i \in 1..Len(items) |-> sectionMarkdown(items[i], i = Len(items))])

RECURSIVE totalMarkdownLength(_)
totalMarkdownLength(items) ==
  IF items = <<>> THEN 0
  ELSE length(Head(items).content.text) + totalMarkdownLength(Tail(items))

\* the passes of the loop that do not get to the end of its body: the
\* destructuring of a null element throws, an invalid content returns
stoppingPasses(items) ==
  {i \in 1..Len(items) : items[i].t = "null" \/ InvalidPayload(items[i].content)}

\* a loop that reports the last pass that cannot go on
stoppingPass_last(items) ==
  CHOOSE i \in stoppingPasses(items) : \A j \in stoppingPasses(items) : j <= i

\* the pass at which the loop stops: the first that cannot go on
stoppingPass(items) ==
  CHOOSE i \in stoppingPasses(items) : \A j \in stoppingPasses(items) : i <= j

convertMultipleMarkdownToPdf_start(c) ==
  /\ At(c, "convertMultipleMarkdownToPdf", "start")
  /\ UNCHANGED <<req, callId, health, engines, started, fs, answered, sse, marked>>
  /\ LET list == Top(c).a.payload
         first == stoppingPass(list.items)
     IN IF list.t # "array" \/ list.items = <<>>
        THEN Return(c, Fail(Msg(<<>>, {}, "Invalid input: markdownContents must be a non-empty array")), <<>>)
        ELSE IF stoppingPasses(list.items) # {} /\ list.items[first].t = "null"
        THEN Return(c, Fail(Msg(<<"Multiple markdown to PDF conversion failed: ">>, {},
                                "Cannot destructure property 'content' of null")), <<>>)
        ELSE IF stoppingPasses(list.items) # {}
        THEN Return(c, Fail(Msg(<<>>, {<<ToString(first - 1)>>},
                                "Invalid markdown content at index: content must be a non-empty string")), <<>>)
        ELSE Await(c, "afterPdf", [total |-> totalMarkdownLength(list.items)],
                   "convertMarkdownToPdf",
                   [payload |-> Str(combinedMarkdown(list.items)), options |-> Top(c).a.options],
                   <<>>)

\* if (result.success && result.metadata) result.metadata.markdownLength = total
convertMultipleMarkdownToPdf_afterPdf(c) ==
  /\ At(c, "convertMultipleMarkdownToPdf", "afterPdf")
  /\ UNCHANGED <<req, callId, health, engines, started, fs, answered, sse, marked>>
  /\ LET result == Result(c)
     IN IF result.success /\ IsSome(result.metadata)
        THEN Return(c, [result EXCEPT !.metadata =
                          Some([Get(@) EXCEPT !.markdownLength = Top(c).l.total])], <<>>)
        ELSE Return(c, result, <<>>)

convertMultipleMarkdownToPdf(c) ==
  \/ convertMultipleMarkdownToPdf_start(c)
  \/ convertMultipleMarkdownToPdf_afterPdf(c)

\* ------------------------------------------------------------ inputs

MarkdownInputs ==
  {NotAString, Str(<<>>), Str(<<" ">>), Str(<<"# Hi">>), Str(<<"<script>x</script>">>),
   Str(<<"# Hi", "a\nb">>), Str(<<"# Hi", " ">>)}

HtmlInputs ==
  {NotAString, Str(<<>>), Str(<<"<p>x</p>">>),
   Str(<<"<html>", "<head>", "</head>", "<p>x</p>", "</html>">>),
   Str(<<"<head>", "</head>", "<p>x</p>", "<head>", "</head>">>),
   Str(<<"<head lang=\"en\">", "<p>x</p>">>)}

UrlInputs == {NotAString, Str(<<>>), Str(<<"http://x">>)}

PdfOptionInputs ==
  {Undefined, NotAnObject,
   Obj(<<"format">> :> S("A6")),
   Obj(<<"format">> :> N(50)),
   Obj((<<"format">> :> S("Letter")) @@ (<<"landscape">> :> B(TRUE))),
   Obj(<<"scale">> :> N(21)),
   Obj(<<"scale">> :> N(20)),
   Obj(<<"scale">> :> N(1)),
   Obj(<<"scale">> :> N(0)),
   Obj(<<"scale">> :> N(-1)),
   Obj((<<"margin">> :> O) @@ (<<"margin", "top">> :> S("2cm")))}

MarkdownOptionInputs ==
  {Undefined,
   Obj(<<"sanitize">> :> B(TRUE)),
   Obj(<<"sanitize">> :> S("yes")),
   Obj((<<"breaks">> :> B(TRUE)) @@ (<<"gfm">> :> B(FALSE))),
   Obj((<<"sanitize">> :> B(TRUE)) @@ (<<"sanitizerOptions">> :> O) @@
       (<<"sanitizerOptions", "allowedTags">> :> A({"h1"}))),
   Obj((<<"sanitize">> :> B(TRUE)) @@ (<<"sanitizerOptions">> :> O) @@
       (<<"sanitizerOptions", "allowedAttributes">> :> A({"a:href"}))),
   Obj((<<"sanitizerOptions">> :> O) @@
       (<<"sanitizerOptions", "allowedTags">> :> A({"h1"})))}

DocxOptionInputs ==
  {Undefined,
   Obj(<<"title">> :> S("Report")),
   Obj(<<"title">> :> S("$&")),
   Obj(<<"title">> :> S("$'")),
   Obj(<<"title">> :> S(DollarGrave)),
   Obj((<<"title">> :> S("Report")) @@ (<<"description">> :> S("d"))),
   Obj(<<"keywords">> :> S("k")),
   Obj(<<"description">> :> S("d")),
   Obj((<<"creator">> :> S("me")) @@ (<<"keywords">> :> S("k"))),
   Obj(<<"orientation">> :> S("diagonal")),
   Obj((<<"orientation">> :> S("landscape")) @@ (<<"margins">> :> O)
       @@ (<<"margins", "top">> :> N(7200)))}

MarkdownToPdfOptionInputs ==
  {Undefined,
   Obj((<<"pdfOptions">> :> O) @@ (<<"pdfOptions", "format">> :> S("A6"))),
   Obj((<<"pdfOptions">> :> O) @@ (<<"pdfOptions", "scale">> :> N(21))),
   Obj((<<"pdfOptions">> :> O) @@ (<<"pdfOptions", "scale">> :> N(20))),
   Obj((<<"pdfOptions">> :> O) @@ (<<"pdfOptions", "scale">> :> N(1))),
   Obj((<<"pdfOptions">> :> O) @@ (<<"pdfOptions", "scale">> :> N(0))),
   Obj((<<"markdownOptions">> :> O) @@ (<<"markdownOptions", "sanitize">> :> B(TRUE))),
   Obj((<<"documentOptions">> :> O) @@ (<<"documentOptions", "fullDocument">> :> B(FALSE))
       @@ (<<"pdfOptions">> :> O) @@ (<<"pdfOptions", "format">> :> S("Letter")))}

MarkdownToDocxOptionInputs ==
  {Undefined,
   Obj(<<"sanitize">> :> B(TRUE)),
   Obj(<<"orientation">> :> S("diagonal")),
   Obj((<<"fullDocument">> :> B(FALSE)) @@ (<<"keywords">> :> S("k"))),
   Obj(<<"title">> :> S("Report"))}

PathInputs ==
  {Path("in", "doc", <<".", "m", "d">>), Path("in", "page", <<".", "h", "t", "m", "l">>), Path("in", "empty", <<".", "m", "d">>),
   Path("in", "missing", <<".", "m", "d">>)}

Section(content, title) == [t |-> "object", content |-> content, title |-> title]
\* a null element of the list
NullSection == [t |-> "null", content |-> NotAString, title |-> U]

SectionLists ==
  {[t |-> "string", items |-> <<>>],
   [t |-> "array", items |-> <<>>],
   [t |-> "array", items |-> <<Section(Str(<<"# Hi">>), U)>>],
   [t |-> "array", items |-> <<Section(Str(<<"# Hi">>), U), Section(Str(<<"**bold**">>), S("Two"))>>],
   [t |-> "array", items |-> <<Section(Str(<<"# Hi">>), S("One")), Section(Str(<<"**bold**">>), U),
                               Section(Str(<<"a\nb", "# Hi">>), S("Three"))>>],
   [t |-> "array", items |-> <<Section(Str(<<"# Hi">>), S("One")), Section(Str(<<>>), U),
                               Section(NotAString, U)>>],
   [t |-> "array", items |-> <<Section(Str(<<"# Hi">>), U), NullSection>>]}

\* the arguments a converter function can be called with
ArgsOf(fn) ==
  CASE fn = "convertMarkdownToHtml" ->
         {[payload |-> p, options |-> o] : p \in MarkdownInputs, o \in MarkdownOptionInputs}
    [] fn = "convertHtmlToPdf" ->
         {[payload |-> p, options |-> o] : p \in HtmlInputs, o \in PdfOptionInputs}
    [] fn = "convertUrlToPdf" ->
         {[payload |-> p, options |-> o] : p \in UrlInputs, o \in PdfOptionInputs}
    [] fn = "convertHtmlToDocx" ->
         {[payload |-> p, options |-> o] : p \in HtmlInputs, o \in DocxOptionInputs}
    [] fn = "convertUrlToDocx" ->
         {[payload |-> p, options |-> o] : p \in UrlInputs, o \in DocxOptionInputs}
    [] fn = "convertMarkdownToPdf" ->
         {[payload |-> p, options |-> o] : p \in MarkdownInputs, o \in MarkdownToPdfOptionInputs}
    [] fn = "convertMarkdownToDocx" ->
         {[payload |-> p, options |-> o] : p \in MarkdownInputs, o \in MarkdownToDocxOptionInputs}
    [] fn = "convertMultipleMarkdownToPdf" ->
         {[payload |-> p, options |-> o] : p \in SectionLists, o \in MarkdownToPdfOptionInputs}
    [] fn \in {"convertHtmlFileToPdf"} ->
         {[payload |-> p, options |-> o] : p \in PathInputs, o \in {Undefined, Obj(<<"format">> :> S("A6"))}}
    [] fn \in {"convertMarkdownFileToHtml"} ->
         {[payload |-> p, options |-> o] : p \in PathInputs, o \in {Undefined, Obj(<<"sanitize">> :> B(TRUE))}}
    [] fn \in {"convertMarkdownFileToPdf"} ->
         {[payload |-> p, options |-> o] : p \in PathInputs, o \in {Undefined}}
    [] fn \in {"convertHtmlFileToDocx", "convertMarkdownFileToDocx"} ->
         {[payload |-> p, options |-> o] : p \in PathInputs, o \in {Undefined, Obj(<<"title">> :> S("Report"))}}

ConverterFns ==
  {"convertMarkdownToHtml", "convertHtmlToPdf", "convertUrlToPdf", "convertHtmlToDocx",
   "convertUrlToDocx", "convertMarkdownToPdf", "convertMarkdownToDocx",
   "convertMultipleMarkdownToPdf"} \cup FileFns

\* the converter functions that reach the rendering engine
RenderingFns ==
  {"convertHtmlToPdf", "convertUrlToPdf", "convertMarkdownToPdf",
   "convertMultipleMarkdownToPdf", "convertHtmlFileToPdf", "convertMarkdownFileToPdf"}

\* ------------------------------------------------------- the requests

\* a caller calls fn(a) on request slot c; the engine will fail at step h
BeginUpTo(max, c, fn, a, h) ==
  /\ Idle(c)
  /\ started < max
  /\ started' = started + 1
  /\ callId' = [callId EXCEPT ![c] = started + 1]
  /\ req' = [req EXCEPT ![c] = [fn |-> fn, a |-> a]]
  /\ health' = [health EXCEPT ![c] = h]
  /\ stack' = [stack EXCEPT ![c] = <<Frame(fn, a, [none |-> TRUE])>>]
  /\ trace' = [trace EXCEPT ![c] = <<CallOf(fn, a)>>]
  /\ ret' = [ret EXCEPT ![c] = None]
  /\ UNCHANGED <<engines, fs, answered, marked>>

Begin(c, fn, a, h) == BeginUpTo(MaxStarted, c, fn, a, h)

\* one converter call at a time, any converter, any argument
CallConverter(c) ==
  /\ \A d \in Calls : Idle(d)
  /\ UNCHANGED sse
  /\ \E fn \in ConverterFns : \E a \in ArgsOf(fn) :
       \E h \in IF fn \in RenderingFns THEN {"ok"} \cup EngineSteps ELSE {"ok"} :
         Begin(c, fn, a, h)

\* what the caller got is a success: a converter result with success: true,
\* or a tool response without isError
Succeeded(r) ==
  IF "success" \in DOMAIN r THEN r.success
  ELSE IF r.kind = "http" THEN r.status = 200
  ELSE IF r.kind = "tools" THEN TRUE
  ELSE IF r.kind = "exit" THEN r.code = 0
  ELSE IF r.kind = "text" THEN TRUE
  ELSE r.kind = "response" /\ ~r.isError

\* the caller has its result; the slot is free again
Collect(c) ==
  /\ Returned(c)
  /\ callId' = [callId EXCEPT ![c] = 0]
  /\ req' = [req EXCEPT ![c] = [fn |-> "none"]]
  /\ health' = [health EXCEPT ![c] = "ok"]
  /\ trace' = [trace EXCEPT ![c] = <<>>]
  /\ ret' = [ret EXCEPT ![c] = None]
  /\ answered' = Append(answered, Succeeded(Result(c)))
  /\ UNCHANGED <<stack, engines, started, fs, sse, marked>>

\* one step of whichever converter function is running
Step(c) ==
  \/ convertMarkdownToHtml(c)
  \/ convertHtmlToPdf(c)
  \/ convertUrlToPdf(c)
  \/ convertHtmlToDocx(c)
  \/ convertUrlToDocx(c)
  \/ convertMarkdownToPdf(c)
  \/ convertMarkdownToDocx(c)
  \/ convertMultipleMarkdownToPdf(c)
  \/ convertFile(c)

Next == \E c \in Calls : CallConverter(c) \/ Step(c) \/ Collect(c)

Spec == Init /\ [][Next]_vars

\* ------------------------------------------ overlapping PDF requests

\* the PDF conversions a caller can have in flight together
ConcurrentArgs(fn) ==
  CASE fn = "convertHtmlToPdf" -> {[payload |-> Str(<<"<p>x</p>">>), options |-> Undefined]}
    [] fn = "convertUrlToPdf" -> {[payload |-> Str(<<"http://x">>), options |-> Undefined]}
    [] fn = "convertMarkdownToPdf" -> {[payload |-> Str(<<"# Hi">>), options |-> Undefined]}

\* a caller starts a PDF conversion while others may be suspended at an await
CallPdf(c) ==
  /\ UNCHANGED sse
  /\ \E fn \in {"convertHtmlToPdf", "convertUrlToPdf", "convertMarkdownToPdf"} :
       \E a \in ConcurrentArgs(fn) : \E h \in {"ok", "launch", "load", "pdf"} :
         Begin(c, fn, a, h)

StepPdf(c) ==
  \/ convertMarkdownToHtml(c)
  \/ convertHtmlToPdf(c)
  \/ convertUrlToPdf(c)
  \/ convertMarkdownToPdf(c)

NextConcurrent == \E c \in Calls : CallPdf(c) \/ StepPdf(c) \/ Collect(c)

SpecConcurrent == Init /\ [][NextConcurrent]_vars

\* ------------------------------------------------ the tool front-ends

StdioTools ==
  {"html_to_pdf", "url_to_pdf", "markdown_to_html", "markdown_to_pdf", "file_to_pdf",
   "html_to_docx", "markdown_to_docx", "file_to_docx", "file_to_html"}

HttpTools ==
  {"html_to_pdf", "url_to_pdf", "markdown_to_html", "markdown_to_pdf", "html_to_docx",
   "markdown_to_docx"}

FileTools == {"file_to_pdf", "file_to_docx", "file_to_html"}

\* one part of a response's content: the fixed text and what is put into it
Text(label, x) == [text |-> label, x |-> x]

\* return { content }
Response(content) == [kind |-> "response", content |-> content, isError |-> FALSE]

\* return { content: [{ type: 'text', text }], isError: true }
ErrorResponse(text) == [kind |-> "response", content |-> <<text>>, isError |-> TRUE]

\* a handler that lets the exception go
caught_rethrown(message) == [kind |-> "exception", content |-> <<>>, isError |-> FALSE]

\* catch (error) { return { content: [`Error: ${errorMessage}`], isError: true } }
caught(message) == ErrorResponse(Text("Error: ", message))

\* what a handler does next: answer, or await a converter
Reply(response, evs) == [do |-> "respond", response |-> response, evs |-> evs]
Convert(fn, payload, options, evs) ==
  [do |-> "convert", fn |-> fn, a |-> [payload |-> payload, options |-> options], evs |-> evs]
Write(path, content, saved, evs) ==
  [do |-> "write", path |-> path, content |-> content, saved |-> saved, evs |-> evs]

\* path.dirname, path.extname(...).toLowerCase(), path.basename(p, ext)
dirname(p) == p.dir

\* path.extname(p): the extension as the path has it
extname(p) == joined(p.ext)

\* an extension compared as it was written
toLowerCase_asWritten(ext) == ext
\* String.prototype.toLowerCase: every capital letter becomes its small letter
toLowerCase(ext) ==
  LET capital == <<"A", "B", "C", "D", "E", "F", "G", "H", "I", "J", "K", "L", "M",
                   "N", "O", "P", "Q", "R", "S", "T", "U", "V", "W", "X", "Y", "Z">>
      small == <<"a", "b", "c", "d", "e", "f", "g", "h", "i", "j", "k", "l", "m",
                 "n", "o", "p", "q", "r", "s", "t", "u", "v", "w", "x", "y", "z">>
      lower(ch) == IF \E k \in 1..26 : capital[k] = ch
                   THEN small[CHOOSE k \in 1..26 : capital[k] = ch]
                   ELSE ch
  IN [i \in 1..Len(ext) |-> lower(ext[i])]
basename(p, ext) == IF extname(p) = ext THEN p.base ELSE p.base \o extname(p)

\* fs.access(path) resolves
accessible(path) == IsSome(path) /\ Get(path) \in DOMAIN fs.files
\* a handler that does not check the output directory
accessibleDir_unchecked(dir) == TRUE
\* fs.access(outputDir) resolves
accessibleDir(dir) == dir \in fs.dirs

\* const { ..., options = {} } = args
Defaulted(options) == IF options.t = "undefined" THEN Obj(NoFields) ELSE options

\* { k: v }  and  { k: { ... } }  in an object literal
Entry(k, v) == (<<k>> :> v)
Nested(k, fields) == (<<k>> :> O) @@ Under(k, fields)

\* { sanitize: options.sanitize || false, gfm: options.gfm !== false,
\*   breaks: options.breaks || false }
markdownLiteral(options) ==
  Entry("sanitize", OrElse(Field(options, <<"sanitize">>), B(FALSE))) @@
  Entry("gfm", B(Field(options, <<"gfm">>) # B(FALSE))) @@
  Entry("breaks", OrElse(Field(options, <<"breaks">>), B(FALSE)))

\* the same in a file tool: gfm: true, breaks: false
markdownFileLiteral(options) ==
  Entry("sanitize", OrElse(Field(options, <<"sanitize">>), B(FALSE))) @@
  Entry("gfm", B(TRUE)) @@ Entry("breaks", B(FALSE))

OneCmMargin ==
  Entry("top", S("1cm")) @@ Entry("right", S("1cm")) @@ Entry("bottom", S("1cm")) @@
  Entry("left", S("1cm"))

\* { format: options.format || 'A4', landscape: options.landscape || false,
\*   printBackground: options.printBackground !== false }
pdfLiteral(options) ==
  Entry("format", OrElse(Field(options, <<"format">>), S("A4"))) @@
  Entry("landscape", OrElse(Field(options, <<"landscape">>), B(FALSE))) @@
  Entry("printBackground", B(Field(options, <<"printBackground">>) # B(FALSE)))

\* margin: options.margin || { top: '1cm', ... }
marginOrDefault(options) ==
  IF Truthy(Field(options, <<"margin">>)) THEN Pick(options, {"margin"}).f
  ELSE Nested("margin", OneCmMargin)

\* { title: options.title || fallback, fullDocument: true }
documentLiteral(options, fallback) ==
  Entry("title", OrElse(Field(options, <<"title">>), S(fallback))) @@
  Entry("fullDocument", B(TRUE))

\* the conversionOptions of markdown_to_pdf and of file_to_pdf on Markdown
markdownToPdfLiteral(md, pdf, doc) ==
  Obj(Nested("markdownOptions", md) @@ Nested("pdfOptions", pdf) @@
      Nested("documentOptions", doc))

\* the conversionOptions of markdown_to_docx
markdownToDocxLiteral(options) ==
  Obj(markdownLiteral(options) @@
      Entry("fullDocument", B(Field(options, <<"fullDocument">>) # B(FALSE))) @@
      Entry("orientation", OrElse(Field(options, <<"orientation">>), S("portrait"))) @@
      Entry("title", OrElse(Field(options, <<"title">>), S("Document"))) @@
      Pick(options, {"margins", "subject", "creator", "keywords", "description"}).f)

\* the conversionOptions of file_to_docx on Markdown
markdownFileToDocxLiteral(options, fallback) ==
  Obj(markdownFileLiteral(options) @@
      Entry("fullDocument", B(TRUE)) @@
      Entry("orientation", OrElse(Field(options, <<"orientation">>), S("portrait"))) @@
      Entry("title", OrElse(Field(options, <<"title">>), S(fallback))) @@
      Pick(options, {"margins", "subject", "creator"}).f)

\* { ...options, title: options.title || fallback }
withTitle(options, fallback) ==
  Obj(Entry("title", OrElse(Field(options, <<"title">>), S(fallback))) @@
      (IF options.t = "object" THEN options.f ELSE NoFields))

TypeErrorArgs == "Cannot destructure property of undefined"
TypeErrorPath == "The \"path\" argument must be of type string"
TypeErrorOptions == "Cannot read properties of null"

\* the stdio handler from the switch to its first converter call
stdioBeforeConvert(name, args) ==
  LET options == Defaulted(args.options)
      isNull == options.t = "null"
      input == Get(args.input_path)
      outputDir == dirname(Get(args.output_path))
      fileExtension == joined(toLowerCase(input.ext))
      inputChecked == IF name \in FileTools THEN <<Ev("fs.access", args.input_path)>> ELSE <<>>
      dirChecked == inputChecked \o <<Ev("fs.access", outputDir)>>
      read == dirChecked \o <<Ev("fs.readFile", input)>>
      content == Str(fs.files[input])
      optionsRead(evs) == Reply(caught(TypeErrorOptions), evs)
  IN
  IF name \notin StdioTools THEN Reply(caught("Unknown tool"), <<>>)
  ELSE IF ~args.present THEN Reply(caught(TypeErrorArgs), <<>>)
  ELSE IF name = "markdown_to_html"
  THEN IF isNull THEN optionsRead(<<>>)
       ELSE Convert("convertMarkdownToHtml", args.payload, Obj(markdownLiteral(options)), <<>>)
  ELSE IF name \in FileTools /\ ~accessible(args.input_path)
  THEN Reply(ErrorResponse(Text("Input file does not exist: ", args.input_path)), inputChecked)
  ELSE IF args.output_path = None THEN Reply(caught(TypeErrorPath), inputChecked)
  ELSE IF ~accessibleDir(outputDir)
  THEN Reply(ErrorResponse(Text("Directory does not exist: ", outputDir)), dirChecked)
  ELSE
  CASE name = "html_to_pdf" -> Convert("convertHtmlToPdf", args.payload, options, dirChecked)
    [] name = "url_to_pdf" -> Convert("convertUrlToPdf", args.payload, options, dirChecked)
    [] name = "html_to_docx" -> Convert("convertHtmlToDocx", args.payload, options, dirChecked)
    [] name = "markdown_to_pdf" ->
         IF isNull THEN optionsRead(dirChecked)
         ELSE Convert("convertMarkdownToPdf", args.payload,
                      markdownToPdfLiteral(markdownLiteral(options),
                                           pdfLiteral(options) @@ marginOrDefault(options),
                                           documentLiteral(options, "Document")),
                      dirChecked)
    [] name = "markdown_to_docx" ->
         IF isNull THEN optionsRead(dirChecked)
         ELSE Convert("convertMarkdownToDocx", args.payload, markdownToDocxLiteral(options),
                      dirChecked)
    [] name = "file_to_pdf" ->
         IF fileExtension \in {".html", ".htm"}
         THEN Convert("convertHtmlFileToPdf", input, options, dirChecked)
         ELSE IF fileExtension \in {".md", ".markdown"}
         THEN IF isNull THEN optionsRead(dirChecked)
              ELSE Convert("convertMarkdownFileToPdf", input,
                           markdownToPdfLiteral(
                             markdownFileLiteral(options),
                             pdfLiteral(options) @@ Nested("margin", OneCmMargin),
                             documentLiteral(options, basename(input, fileExtension))),
                           dirChecked)
         ELSE Reply(ErrorResponse(Text("Unsupported file type: ", fileExtension)), dirChecked)
    [] name = "file_to_docx" ->
         IF fileExtension \in {".html", ".htm"}
         THEN IF isNull THEN optionsRead(read)
              ELSE Convert("convertHtmlToDocx", content,
                           withTitle(options, basename(input, fileExtension)), read)
         ELSE IF fileExtension \in {".md", ".markdown"}
         THEN IF isNull THEN optionsRead(read)
              ELSE Convert("convertMarkdownToDocx", content,
                           markdownFileToDocxLiteral(options, basename(input, fileExtension)),
                           read)
         ELSE Reply(ErrorResponse(Text("Unsupported file type for DOCX conversion: ",
                                       fileExtension)), dirChecked)
    [] name = "file_to_html" ->
         IF fileExtension \in {".md", ".markdown"}
         THEN IF isNull THEN optionsRead(read)
              ELSE Convert("convertMarkdownToHtml", content, Obj(markdownLiteral(options)), read)
         ELSE Reply(ErrorResponse(Text("Unsupported file type for HTML conversion: ",
                                       fileExtension)), dirChecked)

\* text: result.error || 'Failed to convert ...'
errorText(result) == IF IsSome(result.error) THEN Get(result.error) ELSE Msg(<<>>, {}, "Failed to convert")

\* result.metadata?.sanitized
wasSanitized(result) ==
  /\ IsSome(result.metadata)
  /\ "sanitized" \in DOMAIN Get(result.metadata)
  /\ Get(result.metadata).sanitized

\* the stdio handler from the result of its converter call on
stdioAfterConvert(name, args, result) ==
  LET options == Defaulted(args.options)
      isHtml == name \in {"markdown_to_html", "file_to_html"}
      failed == IF isHtml THEN textStageFailed(result) ELSE bufferStageFailed(result)
      title == IF name = "file_to_html"
               THEN basename(Get(args.input_path), joined(toLowerCase(Get(args.input_path).ext)))
               ELSE "Document"
      html == IF Truthy(Field(options, <<"fullDocument">>))
              THEN createFullHtmlDocument(DataOf(result),
                                          OrElse(Field(options, <<"title">>), S(title)), U)
              ELSE DataOf(result)
      content == IF isHtml THEN html ELSE DataOf(result)
      saved == Response(<<Text("generated successfully: ",
                               [path |-> args.output_path, size |-> length(content),
                                sanitized |-> name # "markdown_to_html" /\ wasSanitized(result)])>>)
  IN
  IF failed THEN Reply(ErrorResponse(Text("", errorText(result))), <<>>)
  ELSE IF name = "markdown_to_html" /\ args.output_path = None
  THEN Reply(Response(<<Text("HTML conversion completed successfully. Length: ",
                             [size |-> length(html), sanitized |-> wasSanitized(result)]),
                        Text("HTML Content:\n", html)>>), <<>>)
  ELSE IF name = "markdown_to_html" /\ ~accessibleDir(dirname(Get(args.output_path)))
  THEN Reply(ErrorResponse(Text("Directory does not exist: ", dirname(Get(args.output_path)))),
             <<Ev("fs.access", dirname(Get(args.output_path)))>>)
  ELSE Write(Get(args.output_path), content, saved,
             IF name = "markdown_to_html"
             THEN <<Ev("fs.access", dirname(Get(args.output_path)))>> ELSE <<>>)

\* buffer.toString('base64')
base64(buffer) == <<"base64">> \o buffer

\* the HTTP handler from the switch to its converter call
httpBeforeConvert(name, args) ==
  LET options == Defaulted(args.options)
  IN
  IF name \notin HttpTools THEN Reply(caught("Unknown tool"), <<>>)
  ELSE IF ~args.present THEN Reply(caught(TypeErrorArgs), <<>>)
  ELSE
  CASE name = "html_to_pdf" -> Convert("convertHtmlToPdf", args.payload, options, <<>>)
    [] name = "url_to_pdf" -> Convert("convertUrlToPdf", args.payload, options, <<>>)
    [] name = "markdown_to_html" -> Convert("convertMarkdownToHtml", args.payload, options, <<>>)
    [] name = "html_to_docx" -> Convert("convertHtmlToDocx", args.payload, options, <<>>)
    [] name = "markdown_to_docx" -> Convert("convertMarkdownToDocx", args.payload, options, <<>>)
    [] name = "markdown_to_pdf" ->
         IF options.t = "null" THEN Reply(caught(TypeErrorOptions), <<>>)
         ELSE Convert("convertMarkdownToPdf", args.payload,
                      markdownToPdfLiteral(markdownLiteral(options), pdfLiteral(options),
                                           documentLiteral(options, "Document")),
                      <<>>)

\* the HTTP handler from the result of its converter call on
httpAfterConvert(name, args, result) ==
  LET options == Defaulted(args.options)
      failed == IF name = "markdown_to_html" THEN textStageFailed(result)
                ELSE bufferStageFailed(result)
      html == IF Truthy(Field(options, <<"fullDocument">>))
              THEN createFullHtmlDocument(DataOf(result),
                                          OrElse(Field(options, <<"title">>), S("Document")), U)
              ELSE DataOf(result)
  IN
  IF failed
  THEN Reply(ErrorResponse(Text("", IF IsSome(result.error) THEN Get(result.error)
                                    ELSE Msg(<<>>, {}, "Conversion failed"))), <<>>)
  ELSE IF name = "markdown_to_html"
  THEN Reply(Response(<<Text("HTML generated successfully",
                             [size |-> length(html), sanitized |-> wasSanitized(result)]),
                        Text("HTML Content:\n", html)>>), <<>>)
  ELSE Reply(Response(<<Text("generated",
                             [size |-> length(DataOf(result)),
                              sanitized |-> wasSanitized(result)]),
                        Text("Base64 Data:\n", base64(DataOf(result)))>>), <<>>)

Handlers == {"stdio.callTool", "http.callTool"}

beforeConvert(handler, name, args) ==
  IF handler = "stdio.callTool" THEN stdioBeforeConvert(name, args)
  ELSE httpBeforeConvert(name, args)

afterConvert(handler, name, args, result) ==
  IF handler = "stdio.callTool" THEN stdioAfterConvert(name, args, result)
  ELSE httpAfterConvert(name, args, result)

\* The events of a plan are the handler's awaits of fs.access and fs.readFile,
\* in the order of the code.  The handler takes one step for each: it starts
\* the next one when the one before has settled and, after the last, does
\* what the plan says.  k is the number of awaits started so far; the plan is
\* read again at every step, from the files of that moment.
Proceed(c, plan, k, pc) ==
  IF k < Len(plan.evs) THEN Goto(c, pc, [k |-> k + 1], <<plan.evs[k + 1]>>)
  ELSE CASE plan.do = "respond" -> Return(c, plan.response, <<>>)
         [] plan.do = "convert" -> Await(c, "afterConvert", Top(c).l, plan.fn, plan.a, <<>>)
         [] plan.do = "write" -> Goto(c, "writing", Top(c).l, <<>>)

\* a call-tool handler from its entry to its first await, or to its answer
callTool_start(c, handler) ==
  /\ At(c, handler, "start")
  /\ UNCHANGED <<req, callId, health, engines, started, fs, answered, sse, marked>>
  /\ Proceed(c, beforeConvert(handler, Top(c).a.name, Top(c).a.args), 0, "checking")

\* an await of fs.access or fs.readFile before the converter call has settled
callTool_checked(c, handler) ==
  /\ At(c, handler, "checking")
  /\ UNCHANGED <<req, callId, health, engines, started, fs, answered, sse, marked>>
  /\ Proceed(c, beforeConvert(handler, Top(c).a.name, Top(c).a.args), Top(c).l.k, "checking")

\* the converter has returned: the handler answers, or goes on to its next await
callTool_answer(c, handler) ==
  /\ At(c, handler, "afterConvert")
  /\ UNCHANGED <<req, callId, health, engines, started, fs, answered, sse, marked>>
  /\ Proceed(c, afterConvert(handler, Top(c).a.name, Top(c).a.args, Result(c)), 0, "saving")

\* the await of fs.access(outputDir) after the conversion has settled
callTool_saving(c, handler) ==
  /\ At(c, handler, "saving")
  /\ UNCHANGED <<req, callId, health, engines, started, fs, answered, sse, marked>>
  /\ Proceed(c, afterConvert(handler, Top(c).a.name, Top(c).a.args, Result(c)), Top(c).l.k,
             "saving")

\* await fs.writeFile(output_path, data) resolves, or rejects into the catch
callTool_write(c, handler) ==
  /\ At(c, handler, "writing")
  /\ UNCHANGED <<req, callId, health, engines, started, answered, sse, marked>>
  /\ LET plan == afterConvert(handler, Top(c).a.name, Top(c).a.args, Result(c))
     IN /\ plan.do = "write"
        /\ \E written \in BOOLEAN :
             IF written
             THEN /\ fs' = [fs EXCEPT !.files = (plan.path :> plan.content) @@ @]
                  /\ Return(c, plan.saved,
                            <<Ev("fs.writeFile", [path |-> plan.path, resolved |-> TRUE])>>)
             ELSE /\ fs' = fs
                  /\ Return(c, caught("EACCES"),
                            <<Ev("fs.writeFile", [path |-> plan.path, resolved |-> FALSE])>>)

callTool(c) ==
  \E handler \in Handlers :
    \/ callTool_start(c, handler)
    \/ callTool_checked(c, handler)
    \/ callTool_answer(c, handler)
    \/ callTool_saving(c, handler)
    \/ callTool_write(c, handler)

\* the arguments of a call-tool request; a missing argument is undefined
ToolArgs(payload, input_path, output_path, options) ==
  [present |-> TRUE, payload |-> payload, input_path |-> input_path,
   output_path |-> output_path, options |-> options]

\* a request without arguments
NoArguments ==
  [present |-> FALSE, payload |-> NotAString, input_path |-> None, output_path |-> None,
   options |-> Undefined]

ToolPayloads(name) ==
  CASE name \in {"html_to_pdf", "html_to_docx"} -> {NotAString, Str(<<"<p>x</p>">>)}
    [] name = "url_to_pdf" -> {Str(<<>>), Str(<<"http://x">>)}
    [] name \in {"markdown_to_html", "markdown_to_pdf", "markdown_to_docx"} ->
         {NotAString, Str(<<" ">>), Str(<<"# Hi">>)}
    [] OTHER -> {NotAString}

ToolInputPaths(name) ==
  IF name \in FileTools
  THEN {None, Some(Path("in", "doc", <<".", "m", "d">>)), Some(Path("in", "DOC", <<".", "M", "D">>)),
        Some(Path("in", "page", <<".", "h", "t", "m", "l">>)), Some(Path("in", "notes", <<".", "t", "x", "t">>)),
        Some(Path("in", "old", <<".", "H", "t", "m">>)), Some(Path("in", "readme", <<".", "m", "a", "r", "k", "d", "o", "w", "n">>)),
        Some(Path("in", "missing", <<".", "m", "d">>))}
  ELSE {None}

ToolOutputPaths ==
  {None, Some(Path("out", "result", <<".", "o", "u", "t">>)), Some(Path("gone", "result", <<".", "o", "u", "t">>))}

ToolOptions ==
  {Undefined, Null,
   Obj((<<"sanitize">> :> B(TRUE)) @@ (<<"fullDocument">> :> B(TRUE))),
   Obj(<<"format">> :> S("A6"))}

ToolNames == StdioTools \cup {"no_such_tool"}

\* the requests a client can send to a front-end
ToolRequests(handler) ==
  LET known == IF handler = "stdio.callTool" THEN StdioTools ELSE HttpTools
  IN {[name |-> name, args |-> NoArguments] : name \in ToolNames}
     \cup UNION {{[name |-> name, args |-> ToolArgs(p, i, o, opts)] :
                    p \in ToolPayloads(name), i \in ToolInputPaths(name),
                    o \in IF handler = "stdio.callTool" THEN ToolOutputPaths ELSE {None},
                    opts \in ToolOptions} : name \in known}

\* one tool request at a time, on either front-end
CallTool(c) ==
  /\ \A d \in Calls : Idle(d)
  /\ UNCHANGED sse
  /\ \E handler \in Handlers : \E r \in ToolRequests(handler) : \E h \in {"ok", "load"} :
       Begin(c, handler, r, h)

StepTool(c) ==
  \/ callTool(c)
  \/ convertMarkdownToHtml(c)
  \/ convertHtmlToPdf(c)
  \/ convertUrlToPdf(c)
  \/ convertHtmlToDocx(c)
  \/ convertMarkdownToPdf(c)
  \/ convertMarkdownToDocx(c)
  \/ convertFile(c)

NextTools == \E c \in Calls : CallTool(c) \/ StepTool(c) \/ Collect(c)

SpecTools == Init /\ [][NextTools]_vars

\* ------------------------------------------------ the REST endpoints

RestEndpoints ==
  {"/convert/html-to-pdf", "/convert/markdown-to-html", "/convert/markdown-to-pdf",
   "/convert/url-to-pdf", "/convert/html-to-docx", "/convert/markdown-to-docx"}

\* the converter function an endpoint calls
EndpointConverter(endpoint) ==
  CASE endpoint = "/convert/html-to-pdf" -> "convertHtmlToPdf"
    [] endpoint = "/convert/markdown-to-html" -> "convertMarkdownToHtml"
    [] endpoint = "/convert/markdown-to-pdf" -> "convertMarkdownToPdf"
    [] endpoint = "/convert/url-to-pdf" -> "convertUrlToPdf"
    [] endpoint = "/convert/html-to-docx" -> "convertHtmlToDocx"
    [] endpoint = "/convert/markdown-to-docx" -> "convertMarkdownToDocx"

\* res.setHeader('Content-Type', ...) of an endpoint
EndpointContentType(endpoint) ==
  CASE endpoint \in {"/convert/html-to-pdf", "/convert/markdown-to-pdf", "/convert/url-to-pdf"} ->
         "application/pdf"
    [] endpoint = "/convert/markdown-to-html" -> "text/html"
    [] OTHER -> "application/vnd.openxmlformats-officedocument.wordprocessingml.document"

\* res.status(status).json({ error }): an undefined error leaves the body {}
JsonError(status, error) ==
  [kind |-> "http", status |-> status, contentType |-> "application/json",
   error |-> error, sent |-> None]

\* res.setHeader('Content-Type', contentType); res.send(data)
Sent(contentType, data) ==
  [kind |-> "http", status |-> 200, contentType |-> contentType,
   error |-> None, sent |-> Some(data)]

\* a request body: the payload field the endpoint reads and the options
RestBody(payload, options) == [present |-> TRUE, payload |-> payload, options |-> options]
\* a request whose body was not parsed: req.body is undefined
NoBody == [present |-> FALSE, payload |-> NotAString, options |-> Undefined]

\* the endpoint up to its converter call; destructuring an undefined body
\* throws into the catch block
rest_start(c) ==
  /\ At(c, "rest", "start")
  /\ UNCHANGED <<req, callId, health, engines, started, fs, answered, sse, marked>>
  /\ LET a == Top(c).a
     IN IF ~a.body.present
        THEN Return(c, JsonError(500, Some(Msg(<<>>, {}, TypeErrorArgs))), <<>>)
        ELSE Await(c, "afterConvert", Top(c).l, EndpointConverter(a.endpoint),
                   [payload |-> a.body.payload, options |-> a.body.options], <<>>)

\* the endpoint from the result of its converter call on
rest_respond(c) ==
  /\ At(c, "rest", "afterConvert")
  /\ UNCHANGED <<req, callId, health, engines, started, fs, answered, sse, marked>>
  /\ LET a == Top(c).a
         result == Result(c)
         isHtml == a.endpoint = "/convert/markdown-to-html"
         failed == IF isHtml THEN textStageFailed(result) ELSE bufferStageFailed(result)
         html == IF Truthy(Field(a.body.options, <<"fullDocument">>))
                 THEN createFullHtmlDocument(DataOf(result),
                        OrElse(Field(a.body.options, <<"title">>), S("Document")), U)
                 ELSE DataOf(result)
     IN IF failed THEN Return(c, JsonError(400, result.error), <<>>)
        ELSE Return(c, Sent(EndpointContentType(a.endpoint),
                            IF isHtml THEN html ELSE DataOf(result)), <<>>)

rest(c) ==
  \/ rest_start(c)
  \/ rest_respond(c)

\* the bodies a client can post to an endpoint
RestPayloads(endpoint) ==
  CASE endpoint \in {"/convert/html-to-pdf", "/convert/html-to-docx"} ->
         {NotAString, Str(<<>>), Str(<<"<p>x</p>">>)}
    [] endpoint = "/convert/url-to-pdf" -> {NotAString, Str(<<>>), Str(<<"http://x">>)}
    [] OTHER -> {NotAString, Str(<<" ">>), Str(<<"# Hi">>)}

RestOptions(endpoint) ==
  CASE endpoint \in {"/convert/html-to-pdf", "/convert/url-to-pdf"} ->
         {Undefined, Null, Obj(<<"format">> :> S("A6")), Obj(<<"scale">> :> N(20))}
    [] endpoint = "/convert/markdown-to-html" ->
         {Undefined, Obj(<<"sanitize">> :> S("yes")),
          Obj((<<"fullDocument">> :> B(TRUE)) @@ (<<"sanitize">> :> B(TRUE)))}
    [] endpoint = "/convert/markdown-to-pdf" ->
         {Undefined, Obj((<<"pdfOptions">> :> O) @@ (<<"pdfOptions", "format">> :> S("A6")))}
    [] OTHER -> {Undefined, Obj(<<"orientation">> :> S("diagonal")), Obj(<<"title">> :> S("Report"))}

RestRequests ==
  {[endpoint |-> e, body |-> NoBody] : e \in RestEndpoints}
  \cup UNION {{[endpoint |-> e, body |-> RestBody(p, o)] :
                 p \in RestPayloads(e), o \in RestOptions(e)} : e \in RestEndpoints}

\* one REST request at a time
CallRest(c) ==
  /\ \A d \in Calls : Idle(d)
  /\ UNCHANGED sse
  /\ \E r \in RestRequests : \E h \in {"ok", "launch", "pdf"} : Begin(c, "rest", r, h)

StepRest(c) ==
  \/ rest(c)
  \/ convertMarkdownToHtml(c)
  \/ convertHtmlToPdf(c)
  \/ convertUrlToPdf(c)
  \/ convertHtmlToDocx(c)
  \/ convertMarkdownToPdf(c)
  \/ convertMarkdownToDocx(c)

NextRest == \E c \in Calls : CallRest(c) \/ StepRest(c) \/ Collect(c)

SpecRest == Init /\ [][NextRest]_vars

\* ------------------------------------------- the event-stream endpoints

\* what is kept of a POST /message: the status the route itself answered
\* with (0: it left the answer to the transport), its error, the stream
\* whose transport got the request (0: none), whether that stream was open,
\* the call the protocol server started for it (0: none), and the number
\* of streams opened before it arrived
Posted(status, error, handedTo, streamOpen, call) ==
  [status |-> status, error |-> error, handedTo |-> handedTo, streamOpen |-> streamOpen,
   call |-> call, streamsOpened |-> Len(sse.streams)]

\* a GET /sse that fills the slot only while it is empty
getSse_firstStays ==
  /\ Len(sse.streams) < MaxStreams
  /\ sse' = [sse EXCEPT !.streams = Append(@, "open"),
                        !.transport = IF @ = 0 THEN Len(sse.streams) + 1 ELSE @]
  /\ UNCHANGED <<stack, ret, req, callId, health, trace, engines, started, fs, answered, marked>>

\* GET /sse: this.transport = new SSEServerTransport('/message', res);
\* this.server.connect(this.transport)
getSse ==
  /\ Len(sse.streams) < MaxStreams
  /\ sse' = [sse EXCEPT !.streams = Append(@, "open"), !.transport = Len(sse.streams) + 1]
  /\ UNCHANGED <<stack, ret, req, callId, health, trace, engines, started, fs, answered, marked>>

\* the client of a stream goes away; nothing in the server resets the slot
closeStream(k) ==
  /\ k \in 1..Len(sse.streams)
  /\ sse.streams[k] = "open"
  /\ sse' = [sse EXCEPT !.streams[k] = "closed"]
  /\ UNCHANGED <<stack, ret, req, callId, health, trace, engines, started, fs, answered, marked>>

\* the messages a client posts
SseMessages ==
  {[method |-> "notifications/initialized", params |-> [name |-> "none", args |-> NoArguments]],
   [method |-> "tools/call", params |-> [name |-> "no_such_tool", args |-> NoArguments]],
   [method |-> "tools/call",
    params |-> [name |-> "markdown_to_html",
                args |-> ToolArgs(Str(<<"# Hi">>), None, None, Undefined)]]}

\* POST /message: if (this.transport) this.transport.handlePostMessage(req, res)
\* else res.status(400).json({ error: 'No SSE connection established' }).
\* A transport whose stream is open passes the message on to the protocol
\* server, which starts the handler of a tools/call request.
postMessage ==
  /\ Len(sse.posts) < MaxPosts
  /\ \E msg \in SseMessages :
       LET k == sse.transport
           open == k # 0 /\ sse.streams[k] = "open"
       IN IF k = 0
          THEN /\ sse' = [sse EXCEPT !.posts =
                           Append(@, Posted(400, "No SSE connection established", 0, FALSE, 0))]
               /\ UNCHANGED <<stack, ret, req, callId, health, trace, engines, started, fs,
                              answered, marked>>
          ELSE IF open /\ msg.method = "tools/call"
          THEN \E c \in Calls :
                 /\ Begin(c, "http.callTool", msg.params, "ok")
                 /\ sse' = [sse EXCEPT !.posts = Append(@, Posted(0, "", k, TRUE, started + 1))]
          ELSE /\ sse' = [sse EXCEPT !.posts = Append(@, Posted(0, "", k, open, 0))]
               /\ UNCHANGED <<stack, ret, req, callId, health, trace, engines, started, fs,
                              answered, marked>>

\* the handlers the protocol server runs for the messages it was given
StepSse(c) ==
  \/ callTool_start(c, "http.callTool")
  \/ callTool_answer(c, "http.callTool")
  \/ convertMarkdownToHtml(c)

NextSse ==
  \/ getSse
  \/ \E k \in 1..MaxStreams : closeStream(k)
  \/ postMessage
  \/ \E c \in Calls : StepSse(c) \/ Collect(c)

SpecSse == Init /\ [][NextSse]_vars

\* ------------------------------------------------ the tool catalogues

ListHandlers == {"stdio.listTools", "http.listTools"}

\* the front-end a handler belongs to
FrontEndOf(handler) ==
  IF handler \in {"stdio.listTools", "stdio.callTool"} THEN "stdio" ELSE "http"

\* the names of the tools array a list-tools handler returns, in its order
toolsListed(handler) ==
  IF handler = "stdio.listTools"
  THEN <<"html_to_pdf", "url_to_pdf", "markdown_to_html", "markdown_to_pdf", "file_to_pdf",
         "html_to_docx", "markdown_to_docx", "file_to_docx", "file_to_html">>
  ELSE <<"html_to_pdf", "url_to_pdf", "markdown_to_html", "markdown_to_pdf", "html_to_docx",
         "markdown_to_docx">>

\* the list-tools handler: return { tools: [...] }
listTools(c) ==
  \E handler \in ListHandlers :
    /\ At(c, handler, "start")
    /\ UNCHANGED <<req, callId, health, engines, started, fs, answered, sse, marked>>
    /\ Return(c, [kind |-> "tools", tools |-> toolsListed(handler)], <<>>)

\* what a client asks a front-end when it goes through the catalogue: the
\* list, and a call of each name with and without arguments
CatalogueRequests(handler) ==
  IF handler \in ListHandlers THEN {[name |-> "none", args |-> NoArguments]}
  ELSE {[name |-> name, args |-> NoArguments] : name \in ToolNames}
       \cup {[name |-> name,
              args |-> ToolArgs(Str(<<"# Hi">>), Some(Path("in", "doc", <<".", "m", "d">>)), o, Undefined)] :
               name \in ToolNames,
               o \in IF handler = "stdio.callTool" THEN {Some(Path("out", "result", <<".", "o", "u", "t">>))}
                     ELSE {None}}

\* the handlers are async functions and nothing serialises them: a request
\* may arrive, on either front-end, while another is in progress
CallCatalogue(c) ==
  /\ UNCHANGED sse
  /\ \E handler \in ListHandlers \cup Handlers :
       \E r \in CatalogueRequests(handler) : Begin(c, handler, r, "ok")

NextCatalogue == \E c \in Calls : CallCatalogue(c) \/ listTools(c) \/ StepTool(c) \/ Collect(c)

SpecCatalogue == Init /\ [][NextCatalogue]_vars

\* ------------------------------------------------ the command line

\* the file a path argument names; any other word is a file name in the
\* working directory
CliPath(word) ==
  CASE word = "in/doc.md" -> Path("in", "doc", <<".", "m", "d">>)
    [] word = "in/page.html" -> Path("in", "page", <<".", "h", "t", "m", "l">>)
    [] word = "in/empty.md" -> Path("in", "empty", <<".", "m", "d">>)
    [] word = "in/missing.md" -> Path("in", "missing", <<".", "m", "d">>)
    [] word = "out/result" -> Path("out", "result", <<".", "o", "u", "t">>)
    [] OTHER -> Path(".", word, <<>>)

\* const options = {}
NoCliOptions == [port |-> None, fullDoc |-> FALSE, title |-> None]

\* args[i] of a JavaScript array (undefined past its end), i counted from 1
ArgAt(args, i) == IF i <= Len(args) THEN Some(args[i]) ELSE None

\* the loop over the arguments after the command:
\* for (let i = 1; i < args.length; i++) { ... options.port = args[++i] ... }
RECURSIVE parseOptions(_, _, _)
parseOptions(args, i, options) ==
  IF i > Len(args) THEN [options |-> options, help |-> FALSE]
  ELSE CASE args[i] \in {"--port", "-p"} ->
              parseOptions(args, i + 2, [options EXCEPT !.port = ArgAt(args, i + 1)])
         [] args[i] \in {"--help", "-h"} -> [options |-> options, help |-> TRUE]
         [] args[i] = "--full-doc" -> parseOptions(args, i + 1, [options EXCEPT !.fullDoc = TRUE])
         [] args[i] = "--title" ->
              parseOptions(args, i + 2, [options EXCEPT !.title = ArgAt(args, i + 1)])
         [] OTHER -> parseOptions(args, i + 1, options)

\* an option that is set and not the empty string
Given(o) == IF IsSome(o) THEN Get(o) # "" ELSE FALSE

\* the process has ended with this exit status; childRunning: a child it
\* had started is still running
Exit(code) == [kind |-> "exit", code |-> code, childRunning |-> FALSE]

\* console.error(text); process.exit(1)
Die(c, text, evs) ==
  Return(c, Exit(1), evs \o <<Ev("console.error", text), Ev("process.exit", 1)>>)

\* whether spawn('node', [scriptPath]) started the child. When it did not,
\* the errors ENOENT (there is no node to run), EACCES (node is not
\* executable), EAGAIN, EMFILE and ENFILE are reported by an 'error' event of
\* the child object on the next tick, and any other error (ELOOP) is thrown
\* by spawn itself
SpawnOutcomes == {"running", "ENOENT", "EACCES", "ELOOP"}

\* startServer(mode, options), called by main: the script for the mode,
\* env.PORT when options.port is set, spawn, and the handlers for the
\* child's 'error' and 'close' and for SIGINT and SIGTERM. Neither
\* startServer nor main catches what spawn throws: the exception ends the
\* process with status 1 before a handler is registered
startServer(c, mode, options) ==
  \E child \in SpawnOutcomes :
    LET spawned == Ev("spawn", [script |-> IF mode = "http" THEN "http-server.js" ELSE "index.js",
                               PORT |-> IF mode = "http" /\ Given(options.port)
                                        THEN options.port ELSE None])
    IN IF child = "ELOOP"
       THEN Return(c, Exit(1), <<spawned, Ev("throw", "spawn " \o child)>>)
       ELSE Goto(c, "serving", [child |-> child, received |-> <<>>], <<spawned>>)

\* main() up to its call of startServer or convertFile
cli_main(c) ==
  /\ At(c, "cli", "start")
  /\ UNCHANGED <<req, callId, health, engines, started, fs, answered, sse, marked>>
  /\ LET args == Top(c).a.argv
         parsed == parseOptions(args, 2, NoCliOptions)
     IN IF args = <<>> THEN startServer(c, "stdio", NoCliOptions)
        ELSE IF args[1] = "stdio" THEN startServer(c, "stdio", NoCliOptions)
        ELSE IF parsed.help THEN Return(c, Exit(0), <<Ev("console.log", "help")>>)
        ELSE CASE args[1] = "http" -> startServer(c, "http", parsed.options)
               [] args[1] = "convert" ->
                    IF Len(args) < 4
                    THEN Die(c, "Run \"npx conversion-mcp-server help\" for more information.",
                             <<Ev("console.error", "Error: Convert command requires conversion type, input file, and output file."),
                               Ev("console.error", "Usage: convert <type> <input> <output>")>>)
                    ELSE Goto(c, "convertFile",
                              [conversionType |-> args[2], inputFile |-> args[3],
                               outputFile |-> args[4], options |-> parsed.options], <<>>)
               [] args[1] \in {"help", "--help", "-h"} ->
                    Return(c, Exit(0), <<Ev("console.log", "help")>>)
               [] OTHER ->
                    Die(c, "Run \"npx conversion-mcp-server help\" for usage information.",
                        <<Ev("console.error", "Unknown command")>>)

\* server.on('error', (error) => ...): error.code ENOENT has its own text,
\* any other error is printed with its message, and both leave with status 1
onChildError(code, message) ==
  <<Ev("console.error",
       IF code = "ENOENT"
       THEN "Error: Server files not found. Please run \"npm run build\" first."
       ELSE "Error starting server: " \o message),
    Ev("process.exit", 1)>>

\* the 'error' event of a child that could not be started, with the message
\* "spawn node <code>"
cli_childError(c) ==
  /\ At(c, "cli", "serving")
  /\ Top(c).l.child # "running"
  /\ UNCHANGED <<req, callId, health, engines, started, fs, answered, sse, marked>>
  /\ Return(c, Exit(1), onChildError(Top(c).l.child, "spawn node " \o Top(c).l.child))

\* what server.kill(signal) meets: the signal is sent (or the child has
\* just gone, which kill ignores), or the system refuses it (EPERM) and the
\* child object emits 'error' from within kill
KillOutcomes == {"sent", "EPERM"}

\* the launcher gets SIGINT or SIGTERM while its child runs:
\* process.on(sig, () => server.kill(sig)). A refused kill runs the 'error'
\* handler, which ends the launcher while the child is running
cli_signal(c) ==
  /\ At(c, "cli", "serving")
  /\ Top(c).l.child = "running"
  /\ Len(Top(c).l.received) < MaxSignals
  /\ UNCHANGED <<req, callId, health, engines, started, fs, answered, sse, marked>>
  /\ \E sig \in {"SIGINT", "SIGTERM"}, kill \in KillOutcomes :
       LET forwarded == <<Ev("signal", sig), Ev("server.kill", sig)>>
       IN IF kill = "sent"
          THEN Goto(c, "serving", [Top(c).l EXCEPT !.received = Append(@, sig)], forwarded)
          ELSE Return(c, [Exit(1) EXCEPT !.childRunning = TRUE],
                      forwarded \o onChildError(kill, "kill " \o kill))

\* the code of the child's 'close' event: its exit status, or null when a
\* signal ended it
ChildCodes == {Some(0), Some(1), None}

\* process.exit(code): null and undefined stand for status 0
exitStatus(code) == IF IsSome(code) THEN Get(code) ELSE 0

\* server.on('close', (code) => process.exit(code))
cli_childClose(c) ==
  /\ At(c, "cli", "serving")
  /\ Top(c).l.child = "running"
  /\ UNCHANGED <<req, callId, health, engines, started, fs, answered, sse, marked>>
  /\ \E code \in ChildCodes :
       Return(c, Exit(exitStatus(code)), <<Ev("close", code), Ev("process.exit", code)>>)

ConversionTypes == {"md-to-html", "md-to-pdf", "html-to-pdf", "md-to-docx", "html-to-docx"}

\* converter[convertFunction] of the switch
ConvertFunction(conversionType) ==
  CASE conversionType = "md-to-html" -> "convertMarkdownToHtml"
    [] conversionType = "md-to-pdf" -> "convertMarkdownToPdf"
    [] conversionType = "html-to-pdf" -> "convertHtmlToPdf"
    [] conversionType = "md-to-docx" -> "convertMarkdownToDocx"
    [] conversionType = "html-to-docx" -> "convertHtmlToDocx"

\* the second argument of the converter call: the literal
\* { gfm: true, breaks: false, sanitize: false } for md-to-html, and
\* outputFile, a string, in converter[convertFunction](text, outputFile,
\* conversionOptions) for the other types
SecondArgument(conversionType) ==
  IF conversionType = "md-to-html"
  THEN Obj((<<"gfm">> :> B(TRUE)) @@ (<<"breaks">> :> B(FALSE)) @@ (<<"sanitize">> :> B(FALSE)))
  ELSE NotAnObject

\* convertFile up to its first await: the input file must exist, then the
\* switch over the type starts the import of the converter's module
cli_convertFile_start(c) ==
  /\ At(c, "cli", "convertFile")
  /\ UNCHANGED <<req, callId, health, engines, started, fs, answered, sse, marked>>
  /\ LET l == Top(c).l
         input == CliPath(l.inputFile)
         seen == <<Ev("existsSync", input)>>
     IN IF input \notin DOMAIN fs.files
        THEN Die(c, "Error: Input file does not exist.", seen)
        ELSE IF l.conversionType \notin ConversionTypes
        THEN Die(c, "Error: Unknown conversion type", seen \o <<Ev("switch", l.conversionType)>>)
        ELSE Goto(c, "importing", l, seen \o <<Ev("switch", l.conversionType)>>)

\* after await import(join(distDir, ...)): the module is there, 'Converting'
\* is printed and the read of the input is started; or the module is not
\* there (the converters were not built) and the catch block ends the run
cli_convertFile_imported(c) ==
  /\ At(c, "cli", "importing")
  /\ UNCHANGED <<req, callId, health, engines, started, fs, answered, sse, marked>>
  /\ \E found \in BOOLEAN :
       IF found
       THEN Goto(c, "reading", Top(c).l, <<Ev("import", TRUE), Ev("console.log", "Converting")>>)
       ELSE Die(c, "Error: Cannot find module", <<Ev("import", FALSE)>>)

\* after await fs.readFile(inputFile, 'utf-8'): the converter is called with
\* the text, or the read was refused
cli_convertFile_read(c) ==
  /\ At(c, "cli", "reading")
  /\ UNCHANGED <<req, callId, health, engines, started, fs, answered, sse, marked>>
  /\ LET l == Top(c).l
         input == CliPath(l.inputFile)
         evs == <<Ev("fs.readFile", input)>>
     IN \E read \in BOOLEAN :
          IF read /\ input \in DOMAIN fs.files
          THEN Await(c, "afterConvert", l, ConvertFunction(l.conversionType),
                     [payload |-> Str(fs.files[input]),
                      options |-> SecondArgument(l.conversionType)], evs)
          ELSE Die(c, "Error: EACCES", evs)

\* convertFile from the result of its converter call to the end, or to the
\* await of fs.writeFile for md-to-html
cli_convertFile_afterConvert(c) ==
  /\ At(c, "cli", "afterConvert")
  /\ UNCHANGED <<req, callId, health, engines, started, fs, answered, sse, marked>>
  /\ LET l == Top(c).l
         result == Result(c)
     IN IF ~result.success THEN Die(c, "Conversion failed: ${result.error}", <<>>)
        ELSE IF l.conversionType # "md-to-html"
        THEN Return(c, Exit(0), <<Ev("console.log", "Successfully converted")>>)
        ELSE Goto(c, "writing", l, <<>>)

\* after await fs.writeFile(outputFile, htmlOutput, 'utf-8')
cli_convertFile_written(c) ==
  /\ At(c, "cli", "writing")
  /\ UNCHANGED <<req, callId, health, engines, started, answered, sse, marked>>
  /\ LET l == Top(c).l
         result == Result(c)
         output == CliPath(l.outputFile)
         title == IF Given(l.options.title) THEN S(Get(l.options.title))
                  ELSE S("Converted Document")
         htmlOutput == IF l.options.fullDoc
                       THEN createFullHtmlDocument(DataOf(result), title, U)
                       ELSE DataOf(result)
         done == <<Ev("console.log", "Successfully converted")>>
     IN \E written \in BOOLEAN :
          IF written
          THEN /\ fs' = [fs EXCEPT !.files = (output :> htmlOutput) @@ @]
               /\ Return(c, Exit(0),
                         <<Ev("fs.writeFile", [path |-> output, resolved |-> TRUE])>> \o done)
          ELSE /\ fs' = fs
               /\ Die(c, "Error: EACCES",
                      <<Ev("fs.writeFile", [path |-> output, resolved |-> FALSE])>>)

\* the command lines tried
CliArgs ==
  {<<>>, <<"stdio">>, <<"http">>, <<"http", "--port", "8080">>, <<"http", "-p", "8080">>,
   <<"http", "--port">>, <<"help">>, <<"http", "--help">>, <<"serve">>,
   <<"convert">>, <<"convert", "md-to-html", "in/doc.md">>,
   <<"convert", "md-to-html", "in/doc.md", "--full-doc">>,
   <<"convert", "md-to-html", "in/doc.md", "out/result", "--full-doc", "--title", "T">>,
   <<"convert", "md-to-html", "in/doc.md", "out/result", "--full-doc">>,
   <<"convert", "md-to-html", "in/empty.md", "out/result">>,
   <<"convert", "md-to-text", "in/missing.md", "out/result">>}
  \cup {<<"convert", type, input, "out/result">> :
          type \in ConversionTypes \cup {"md-to-text"},
          input \in {"in/doc.md", "in/page.html", "in/missing.md"}}

CallCli(c) ==
  /\ \A d \in Calls : Idle(d)
  /\ UNCHANGED sse
  /\ \E args \in CliArgs : Begin(c, "cli", [argv |-> args], "ok")

\* the steps of the command line and of the converter functions it calls,
\* each of which returns from its validation of the second argument
StepCli(c) ==
  \/ cli_main(c)
  \/ cli_childError(c)
  \/ cli_signal(c)
  \/ cli_childClose(c)
  \/ cli_convertFile_start(c)
  \/ cli_convertFile_imported(c)
  \/ cli_convertFile_read(c)
  \/ cli_convertFile_afterConvert(c)
  \/ cli_convertFile_written(c)
  \/ convertMarkdownToHtml(c)
  \/ convertMarkdownToPdf_start(c)
  \/ Pdf_validate(c, "convertHtmlToPdf")
  \/ convertMarkdownToDocx_start(c)
  \/ convertHtmlToDocx_emit(c)

NextCli == \E c \in Calls : CallCli(c) \/ StepCli(c) \/ Collect(c)

SpecCli == Init /\ [][NextCli]_vars

\* ------------------------------------------------ requests in parallel

\* the full-document wrap, called on its own
callCreateFullHtmlDocument(c) ==
  /\ At(c, "createFullHtmlDocument", "start")
  /\ UNCHANGED <<req, callId, health, engines, started, fs, answered, sse, marked>>
  /\ LET a == Top(c).a
     IN Return(c, [kind |-> "text",
                   text |-> createFullHtmlDocument(a.htmlContent, a.title, a.cssStyles)], <<>>)

\* the calls made while another may be in progress
ParallelArgs(fn) ==
  IF fn = "createFullHtmlDocument"
  THEN {[htmlContent |-> f, title |-> t, cssStyles |-> css] :
          f \in {<<>>, <<"<h1>Hi</h1>", "<p>a\nb</p>">>},
          t \in {U, S("T")},
          css \in {U, S(""), S("h1 { color: red; }")}}
  ELSE {[payload |-> p, options |-> o] :
          p \in {Str(<<"a\nb">>), Str(<<"~~s~~", "a\nb">>)},
          o \in {Undefined,
                 Obj((<<"breaks">> :> B(TRUE)) @@ (<<"gfm">> :> B(FALSE))),
                 Obj(<<"pedantic">> :> B(TRUE))}}

\* a request arrives, whatever the other request slot is doing
CallParallel(c) ==
  /\ UNCHANGED sse
  /\ \E fn \in {"createFullHtmlDocument", "convertMarkdownToHtml"} :
       \E a \in ParallelArgs(fn) : BeginUpTo(MaxParallel, c, fn, a, "ok")

NextParallel ==
  \E c \in Calls :
    \/ CallParallel(c)
    \/ callCreateFullHtmlDocument(c)
    \/ convertMarkdownToHtml(c)
    \/ Collect(c)

SpecParallel == Init /\ [][NextParallel]_vars

\* ------------------------------------------------------- properties

\* the positions of a request's trace
Events(c) == 1..Len(trace[c])

\* the function fn has returned within request c
HasReturned(c, fn) == \E i \in Events(c) : trace[c][i].e = "return" /\ trace[c][i].x = fn

PdfFns == {"convertHtmlToPdf", "convertUrlToPdf"}

\* convertHtmlToPdf or convertUrlToPdf has returned within request c
PdfReturned(c) == \E fn \in PdfFns : HasReturned(c, fn)

\* the instances launched by the call that request c serves
Launched(c) == {b \in 1..Len(engines) : engines[b].owner = callId[c]}

\* browser.close() was called on every instance the request launched, after
\* the launch and before the return of the function that launched it
ClosedBeforeReturn(c) ==
  \A i \in Events(c) :
    trace[c][i].e = "puppeteer.launch" /\ trace[c][i].x # 0 =>
      \E j \in Events(c), k \in Events(c) :
        /\ i < j /\ j < k
        /\ trace[c][j] = Ev("browser.close", trace[c][i].x)
        /\ trace[c][k].e = "return" /\ trace[c][k].x \in PdfFns

\* C1: once convertHtmlToPdf or convertUrlToPdf has returned, on the success
\* path and on every failure path, close has been called before the return
\* on every rendering-engine instance the call launched, and no instance
\* launched by that call is still open.
C1_NoInstanceLeftOpen ==
  \A c \in Calls : PdfReturned(c) =>
    /\ ClosedBeforeReturn(c)
    /\ \A b \in Launched(c) : engines[b].state = "closed"

\* what the finally block does achieve: close has been called before the
\* return on every instance the call launched, and an instance is open
\* after the return only if that close itself raised
CloseCalledOnEveryPath ==
  \A c \in Calls : PdfReturned(c) =>
    /\ ClosedBeforeReturn(c)
    /\ \A b \in Launched(c) :
         /\ callId[c] \in engines[b].closers
         /\ engines[b].state = "open" => engines[b].closeThrew

\* success: true comes with data and no error; success: false comes with an
\* error string and no data
WellFormed(r) ==
  /\ r.success => IsSome(r.data) /\ r.error = None
  /\ ~r.success => IsSome(r.error) /\ r.data = None

\* C2: every result a converter function returns, at the top of a request or
\* as a stage of a composer, has data and no error when success is true, and
\* an error string and no data when success is false.
C2_ResultShape ==
  \A c \in Calls : \A i \in Events(c) :
    trace[c][i].e = "return" => WellFormed(trace[c][i].r)

\* the Markdown-to-DOCX composer has failed on an HTML stage that reported
\* no error of its own
C2_Witness ==
  \E c \in Calls :
    /\ Returned(c) /\ req[c].fn = "convertMarkdownToDocx"
    /\ ~Result(c).success
    /\ Result(c).error = Some(Msg(<<>>, {}, "Failed to convert markdown to HTML"))

\* a payload that is not a string or is the empty string
EmptyOrNotString(p) == p.t # "string" \/ Len(p.text) = 0

Composers == {"convertMarkdownToPdf", "convertMarkdownToDocx"}
StageFns == {"convertMarkdownToHtml", "convertHtmlToPdf", "convertHtmlToDocx"}

\* the annotation that names a stage in a composer's error
StageNote(fn) ==
  CASE fn = "convertMarkdownToHtml" -> "Markdown to HTML conversion failed: "
    [] fn = "convertHtmlToPdf" -> "HTML to PDF conversion failed: "
    [] fn = "convertHtmlToDocx" -> "HTML to DOCX conversion failed: "

\* the positions at which a stage of the composer request c returned failure
FailedStages(c) ==
  {i \in Events(c) : /\ trace[c][i].e = "return" /\ trace[c][i].x \in StageFns
                     /\ ~trace[c][i].r.success}

\* C4: when a stage of convertMarkdownToPdf or convertMarkdownToDocx
\* reports failure the composer returns success=false with no data, starts
\* no later stage, and its error is the stage's own error together with an
\* annotation that names the stage.
C4_StageFailureAnnotated ==
  \A c \in Calls :
    Returned(c) /\ req[c].fn \in Composers =>
      \A i \in FailedStages(c) :
        /\ ~Result(c).success /\ Result(c).data = None
        /\ \A j \in Events(c) : j > i => trace[c][j].e # "call"
        /\ Result(c).error =
             Some(Prefixed(StageNote(trace[c][i].x), ErrText(trace[c][i].r.error)))

\* the Markdown-to-HTML stage of request c returned success
HtmlStageSucceeded(c) ==
  \E i \in Events(c) : /\ trace[c][i].e = "return" /\ trace[c][i].x = "convertMarkdownToHtml"
                       /\ trace[c][i].r.success

\* C5: convertMarkdownToPdf on valid input succeeds exactly when
\* convertMarkdownToHtml succeeds on it and the engine then renders without
\* failing; when the render fails the error names the HTML-to-PDF stage and
\* no instance of the call is open.
C5_PdfIffHtmlAndRender ==
  \A c \in Calls :
    (/\ Returned(c) /\ req[c].fn = "convertMarkdownToPdf"
     /\ ~EmptyOrNotString(req[c].a.payload)
     /\ Issues(MarkdownToPdfOptionsSchema, req[c].a.options) = {}) =>
      /\ Result(c).success <=> (HtmlStageSucceeded(c) /\ health[c] = "ok")
      /\ HtmlStageSucceeded(c) /\ health[c] # "ok" /\ Did(c, "puppeteer.launch") =>
           /\ Get(Result(c).error).pre[1] = "HTML to PDF conversion failed: "
           /\ \A b \in Launched(c) : engines[b].state = "closed"

\* the option paths the declared PDF option table rejects in a value
DeclaredPdfErrors(o) ==
  CASE o.t = "undefined" -> {}
    [] o.t # "object" -> {<<>>}
    [] OTHER ->
      {p \in DOMAIN o.f :
         \/ p = <<"format">> /\ ~(o.f[p].t = "string" /\
              o.f[p].s \in {"A4", "A3", "A2", "A1", "A0", "Legal", "Letter", "Tabloid"})
         \/ p = <<"scale">> /\ ~(o.f[p].t = "number" /\ o.f[p].n \in 1..20)
         \/ p \in {<<"printBackground">>, <<"landscape">>, <<"displayHeaderFooter">>,
                   <<"preferCSSPageSize">>} /\ o.f[p].t # "boolean"
         \/ p \in {<<"headerTemplate">>, <<"footerTemplate">>, <<"width">>, <<"height">>,
                   <<"margin", "top">>, <<"margin", "right">>, <<"margin", "bottom">>,
                   <<"margin", "left">>} /\ o.f[p].t # "string"
         \/ p = <<"margin">> /\ o.f[p].t # "object"}

\* the same for the options of a call of fn
DeclaredErrors(fn, o) ==
  IF fn \in PdfFns THEN DeclaredPdfErrors(o)
  ELSE IF o.t # "object" THEN DeclaredPdfErrors(o)
  ELSE {<<"pdfOptions">> \o p : p \in DeclaredPdfErrors(Sub(o, "pdfOptions"))}

OptionCheckedFns == PdfFns \cup {"convertMarkdownToPdf"}

\* the call of request c fails with an error that names every rejected field
RejectsOptions(c) ==
  /\ ~Result(c).success
  /\ Get(Result(c).error).pre = <<"Invalid options: ">>
  /\ DeclaredErrors(req[c].fn, req[c].a.options) \subseteq Get(Result(c).error).fields

\* C6 (as first stated): convertHtmlToPdf, convertUrlToPdf and
\* convertMarkdownToPdf, given options the schema rejects, fail with an
\* error naming the invalid field and launch no engine instance.
C6_InvalidOptionsRejected ==
  \A c \in Calls :
    (/\ Returned(c) /\ req[c].fn \in OptionCheckedFns
     /\ DeclaredErrors(req[c].fn, req[c].a.options) # {}) =>
      RejectsOptions(c) /\ ~Did(c, "puppeteer.launch")

\* C6: convertHtmlToPdf, convertUrlToPdf and convertMarkdownToPdf, given
\* options the schema rejects, launch no engine instance and fail; when the
\* payload is a non-empty string the error names the invalid field.
C6_InvalidOptionsRejectedForValidPayload ==
  \A c \in Calls :
    (/\ req[c].fn \in OptionCheckedFns
     /\ DeclaredErrors(req[c].fn, req[c].a.options) # {}) =>
      /\ ~Did(c, "puppeteer.launch")
      /\ Returned(c) => ~Result(c).success
      /\ Returned(c) /\ ~EmptyOrNotString(req[c].a.payload) => RejectsOptions(c)

\* the Markdown-to-PDF composer has rejected a paper format outside the enum
C6_Witness ==
  \E c \in Calls :
    /\ Returned(c) /\ req[c].fn = "convertMarkdownToPdf"
    /\ ~EmptyOrNotString(req[c].a.payload)
    /\ Field(req[c].a.options, <<"pdfOptions", "format">>) = S("A6")
    /\ Get(Result(c).error).fields = {<<"pdfOptions", "format">>}

StringPayloadFns ==
  {"convertMarkdownToHtml", "convertHtmlToPdf", "convertUrlToPdf", "convertHtmlToDocx",
   "convertUrlToDocx", "convertMarkdownToPdf", "convertMarkdownToDocx"}

\* the invalid-input error of a converter function
InvalidInputError(fn) ==
  CASE fn \in {"convertMarkdownToHtml", "convertMarkdownToPdf", "convertMarkdownToDocx"} ->
         Msg(<<>>, {}, "Invalid markdown input: Markdown must be a non-empty string")
    [] fn \in {"convertHtmlToPdf", "convertHtmlToDocx"} ->
         Msg(<<>>, {}, "Invalid HTML input: HTML must be a non-empty string")
    [] fn \in {"convertUrlToPdf", "convertUrlToDocx"} ->
         Msg(<<>>, {}, "Invalid URL input: URL must be a non-empty string")

\* C7: a converter function called with an empty or non-string Markdown,
\* HTML or URL payload does nothing but return success=false with its
\* invalid-input error: no option validation, no parser, sanitizer, fetch,
\* DOCX emitter or engine launch comes between the call and the return.
C7_InvalidPayloadRejectedFirst ==
  \A c \in Calls : \A i \in Events(c) :
    (/\ trace[c][i].e = "call" /\ trace[c][i].x \in StringPayloadFns
     /\ EmptyOrNotString(trace[c][i].a.payload)
     /\ i < Len(trace[c])) =>
      /\ trace[c][i + 1].e = "return" /\ trace[c][i + 1].x = trace[c][i].x
      /\ trace[c][i + 1].r = Fail(InvalidInputError(trace[c][i].x))

\* convertUrlToDocx has rejected an empty URL that came with a title to inject
C7_Witness ==
  \E c \in Calls :
    /\ Returned(c) /\ req[c].fn = "convertUrlToDocx"
    /\ req[c].a.payload = Str(<<>>) /\ req[c].a.options # Undefined
    /\ Result(c) = Fail(InvalidInputError("convertUrlToDocx"))
    /\ Len(trace[c]) = 2

SecondStageFns == {"convertHtmlToPdf", "convertHtmlToDocx"}

\* part occurs in whole, contiguously
Within(part, whole) ==
  \E k \in 0..(Len(whole) - Len(part)) : SubSeq(whole, k + 1, k + Len(part)) = part

\* the stage frames a request has in progress
ActiveStages(c) == {k \in 1..Len(stack[c]) : stack[c][k].fn \in StageFns}

\* C9: in convertMarkdownToPdf and convertMarkdownToDocx the second stage is
\* called only after convertMarkdownToHtml has returned success, with the
\* whole of the HTML it returned; it is never called after a failure of the
\* first stage, and two stages of a request are never in progress together.
C9_SecondStageAfterFirstSuccess ==
  \A c \in Calls :
    (callId[c] # 0 /\ req[c].fn \in Composers) =>
      /\ Cardinality(ActiveStages(c)) <= 1
      /\ \A j \in Events(c) :
           trace[c][j].e = "call" /\ trace[c][j].x \in SecondStageFns =>
             /\ ActiveStages(c) \subseteq {k \in 1..Len(stack[c]) : stack[c][k].fn \in SecondStageFns}
             /\ \E i \in 1..(j - 1) :
                  /\ trace[c][i].e = "return" /\ trace[c][i].x = "convertMarkdownToHtml"
                  /\ trace[c][i].r.success /\ IsSome(trace[c][i].r.data)
                  /\ Within(Get(trace[c][i].r.data), trace[c][j].a.payload.text)
             /\ \A i \in 1..(j - 1) :
                  trace[c][i].e = "return" /\ trace[c][i].x = "convertMarkdownToHtml" =>
                    trace[c][i].r.success

\* the Markdown-to-DOCX composer is waiting for its second stage, which got
\* the unwrapped HTML of the first
C9_Witness ==
  \E c \in Calls :
    /\ req[c].fn = "convertMarkdownToDocx" /\ Running(c)
    /\ Top(c).fn = "convertHtmlToDocx"
    /\ Field(req[c].a.options, <<"fullDocument">>) = B(FALSE)
    /\ Top(c).a.payload = Str(<<"<h1>Hi</h1>">>)

\* the metadata fields of the DOCX options that are set
MetadataSet(o) ==
  {k \in {"title", "subject", "creator", "keywords", "description"} : Truthy(Field(o, <<k>>))}

\* the element el stands inside the head of the document html
InHead(el, html) ==
  \E h \in 1..Len(html), k \in 1..Len(html), e \in 1..Len(html) :
    /\ h < k /\ k + Len(el) <= e
    /\ html[h] \in {"<head>", "<head lang=\"en\">"}
    /\ SubSeq(html, k, k + Len(el) - 1) = el
    /\ html[e] = "</head>"

\* C10: when convertHtmlToDocx is called with any of title, subject,
\* creator, keywords, description set, the HTML handed to the DOCX emitter
\* has in its head an element for every field that is set.
C10_EverySetFieldInjected ==
  \A c \in Calls :
    (callId[c] # 0 /\ req[c].fn = "convertHtmlToDocx") =>
      \A i \in Events(c) :
        trace[c][i].e = "asBlob" =>
          \A k \in MetadataSet(req[c].a.options) :
            InHead(MetaElement(k, Field(req[c].a.options, <<k>>).s), trace[c][i].x.html)

\* the instances request c has launched, by its own account
LaunchedIn(c) ==
  {trace[c][i].x : i \in {j \in Events(c) : trace[c][j].e = "puppeteer.launch" /\ trace[c][j].x # 0}}

\* C8: with PDF conversions overlapping, every call launches an instance of
\* its own, no instance is used or closed by a call other than the one that
\* launched it, and a call whose own engine is healthy succeeds with the PDF
\* of its own payload whatever happens to the other calls.
C8_InstancesNotShared ==
  /\ \A b \in 1..Len(engines) :
       engines[b].users \subseteq {engines[b].owner} /\ engines[b].closers \subseteq {engines[b].owner}
  /\ \A c \in Calls, d \in Calls : c # d => LaunchedIn(c) \cap LaunchedIn(d) = {}
  /\ \A c \in Calls :
       /\ LaunchedIn(c) \subseteq Launched(c)
       /\ Cardinality(LaunchedIn(c)) <= 1
       /\ \A b \in Launched(c) : engines[b].state = "closed" => callId[c] \in engines[b].closers
       /\ Returned(c) /\ health[c] # "ok" => ~Result(c).success
       /\ Returned(c) /\ Result(c).success /\ req[c].fn \in PdfFns =>
            Result(c).data = Some(pdfBuffer(req[c].a.payload.text))
       /\ (/\ Returned(c) /\ health[c] = "ok"
           /\ req[c].fn = "convertMarkdownToPdf" => HtmlStageSucceeded(c)) =>
            Result(c).success /\ Cardinality(LaunchedIn(c)) = 1

\* one call has returned the failure of its own engine while another, begun
\* before that return, holds an open instance of its own and uses it
C8_Witness ==
  \E c \in Calls, d \in Calls :
    /\ c # d
    /\ Returned(c) /\ ~Result(c).success /\ LaunchedIn(c) # {}
    /\ Running(d) /\ health[d] = "ok"
    /\ \E b \in LaunchedIn(d) : engines[b].state = "open" /\ engines[b].users = {callId[d]}

\* the tools each front-end lists
ListedTools(handler) ==
  IF handler = "stdio.callTool"
  THEN {"html_to_pdf", "url_to_pdf", "markdown_to_html", "markdown_to_pdf", "file_to_pdf",
        "html_to_docx", "markdown_to_docx", "file_to_docx", "file_to_html"}
  ELSE {"html_to_pdf", "url_to_pdf", "markdown_to_html", "markdown_to_pdf", "html_to_docx",
        "markdown_to_docx"}

\* the request of c is one of: unknown tool, no arguments, a converter call
\* that returned failure, an output file that could not be written
MustFail(c) ==
  \/ req[c].a.name \notin ListedTools(req[c].fn)
  \/ ~req[c].a.args.present
  \/ \E i \in Events(c) : /\ trace[c][i].e = "return" /\ trace[c][i].x \notin Handlers
                          /\ ~trace[c][i].r.success
  \/ \E i \in Events(c) : trace[c][i].e = "fs.writeFile" /\ ~trace[c][i].x.resolved

\* C3: on the stdio and on the HTTP front-end every call-tool request ends
\* in a response with a content list, with isError=true when the tool is
\* unknown, the arguments are missing, the converter failed or the file
\* could not be written; no exception leaves the handler, and after any
\* response, an error response included, the caller gets it and the server
\* takes the next request, which is answered in the same way.
C3_EveryRequestAnswered ==
  /\ \A c \in Calls :
       (callId[c] # 0 /\ req[c].fn \in Handlers) =>
         /\ Returned(c) =>
              /\ Result(c).kind = "response"
              /\ Result(c).content # <<>>
              /\ MustFail(c) => Result(c).isError
              /\ ENABLED Collect(c)
  /\ ((\A c \in Calls : Idle(c)) /\ started < MaxStarted) => ENABLED (\E c \in Calls : CallTool(c))

\* after a request that ended in an error response, the stdio front-end has
\* answered the next one, whose output file could not be written
C3_Witness ==
  \E c \in Calls :
    /\ Returned(c) /\ req[c].fn = "stdio.callTool"
    /\ answered = <<FALSE>>
    /\ \E i \in Events(c) : trace[c][i].e = "fs.writeFile" /\ ~trace[c][i].x.resolved
    /\ Result(c) = ErrorResponse(Text("Error: ", "EACCES"))

\* the call of convertHtmlToDocx that made the emission at position i
EmittingCall(c, i) ==
  CHOOSE j \in 1..(i - 1) :
    /\ trace[c][j].e = "call" /\ trace[c][j].x = "convertHtmlToDocx"
    /\ \A k \in (j + 1)..(i - 1) : trace[c][k].e # "call"

\* the metadata elements of the options o, in the order of the fields
MetadataElements(o) ==
  Flatten([k \in 1..5 |->
             LET field == <<"title", "subject", "creator", "keywords", "description">>[k]
             IN IF field \in MetadataSet(o) THEN MetaElement(field, Field(o, <<field>>).s)
                ELSE <<>>])

\* the position of the first literal '<head>' of html (0: none)
FirstHead(html) ==
  IF \E k \in 1..Len(html) : html[k] = "<head>"
  THEN CHOOSE k \in 1..Len(html) : html[k] = "<head>" /\ \A m \in 1..(k - 1) : html[m] # "<head>"
  ELSE 0

\* html has a chunk that begins a tag named html or head
HasHtmlOrHeadMarker(html) ==
  \E k \in 1..Len(html) :
    html[k] \in {"<html>", "<html lang=\"en\">", "<head>", "<head lang=\"en\">", "<header>"}

\* the document the DOCX emitter is to receive for html under options o
PlacedMetadata(html, o) ==
  IF ~HasHtmlOrHeadMarker(html)
  THEN <<"<!DOCTYPE html>", "<html>", "<head>">> \o MetadataElements(o)
       \o <<"</head>", "<body>">> \o html \o <<"</body>", "</html>">>
  ELSE IF FirstHead(html) # 0
  THEN SubSeq(html, 1, FirstHead(html)) \o MetadataElements(o)
       \o SubSeq(html, FirstHead(html) + 1, Len(html))
  ELSE html

\* C11: when convertHtmlToDocx injects metadata (title, subject or creator
\* is set): HTML with neither '<html' nor '<head' reaches the emitter inside
\* a minimal shell whose head holds the metadata elements and whose body
\* holds the HTML unchanged; HTML with the literal '<head>' reaches it with
\* the metadata elements right after the first '<head>' and the rest
\* unchanged; any other HTML reaches it unchanged.
C11_MetadataPlacement ==
  \A c \in Calls : \A i \in Events(c) :
    trace[c][i].e = "asBlob" =>
      LET a == trace[c][EmittingCall(c, i)].a
      IN MetadataSet(a.options) \cap {"title", "subject", "creator"} # {} =>
           trace[c][i].x.html = PlacedMetadata(a.payload.text, a.options)

\* the options o give no value for the key k: the key is absent or undefined
NotSupplied(o, k) == o.t # "object" \/ <<k>> \notin DOMAIN o.f \/ o.f[<<k>>].t = "undefined"

\* one inch on each of the four page edges, in twips (kept in tenths)
OneInchMargins(o) ==
  \A side \in {"top", "right", "bottom", "left"} :
    /\ <<"margins", side>> \in DOMAIN o.f
    /\ o.f[<<"margins", side>>] = N(14400)

\* C12: whenever convertHtmlToDocx runs without a margins value from its
\* caller, called directly or by convertMarkdownToDocx, the DOCX emitter
\* receives margins of 1440 twips for top, right, bottom and left, and the
\* orientation portrait when the caller gave none; the emitter receives no
\* option other than orientation and margins.
C12_DocxDefaultsReachEmitter ==
  \A c \in Calls : \A i \in Events(c) :
    trace[c][i].e = "asBlob" =>
      LET a == trace[c][EmittingCall(c, i)].a
          given == trace[c][i].x.options
      IN /\ \A p \in DOMAIN given.f : p[1] \in {"orientation", "margins"}
         /\ NotSupplied(a.options, "margins") => OneInchMargins(given)
         /\ NotSupplied(a.options, "margins") /\ NotSupplied(a.options, "orientation") =>
              /\ <<"orientation">> \in DOMAIN given.f
              /\ given.f[<<"orientation">>] = S("portrait")

\* the call of convertHtmlToPdf or convertUrlToPdf that made the render at
\* position i
RenderingCall(c, i) ==
  CHOOSE j \in 1..(i - 1) :
    /\ trace[c][j].e = "call" /\ trace[c][j].x \in PdfFns
    /\ \A k \in (j + 1)..(i - 1) : trace[c][k].e # "call"

\* the caller's options give no value for a side of the margin
SideNotGiven(o, side) ==
  o.t # "object" \/ <<"margin", side>> \notin DOMAIN o.f \/ o.f[<<"margin", side>>].t = "undefined"

\* the value the options handed to the renderer have at a path (U: none)
Rendered(given, path) == IF path \in DOMAIN given.f THEN given.f[path] ELSE U

\* C13: in convertHtmlToPdf and convertUrlToPdf every option the caller
\* leaves out has its default in the options handed to page.pdf, whatever
\* else is supplied: format A4, printBackground true, and 1cm for each
\* margin side the caller does not give, also when the caller gives a
\* margin object with only some sides; and a call without options, on a
\* valid payload and a healthy engine, succeeds.
C13_AbsentOptionsDefaulted ==
  \A c \in Calls :
    /\ \A i \in Events(c) :
         trace[c][i].e = "page.pdf" =>
           LET o == trace[c][RenderingCall(c, i)].a.options
               given == trace[c][i].x
           IN /\ NotSupplied(o, "format") => Rendered(given, <<"format">>) = S("A4")
              /\ NotSupplied(o, "printBackground") =>
                   Rendered(given, <<"printBackground">>) = B(TRUE)
              /\ \A side \in {"top", "right", "bottom", "left"} :
                   SideNotGiven(o, side) => Rendered(given, <<"margin", side>>) = S("1cm")
    /\ (/\ Returned(c) /\ req[c].fn \in PdfFns /\ req[c].a.options.t = "undefined"
        /\ ~EmptyOrNotString(req[c].a.payload) /\ health[c] = "ok") => Result(c).success

\* the call of fn that the return at position i answers
CallReturning(c, i) ==
  CHOOSE j \in 1..(i - 1) :
    /\ trace[c][j].e = "call" /\ trace[c][j].x = trace[c][i].x
    /\ \A k \in (j + 1)..(i - 1) : ~(trace[c][k].e = "call" /\ trace[c][k].x = trace[c][i].x)

\* C14: every successful return of convertMarkdownToDocx has
\* metadata.originalLength equal to the length of the Markdown it was called
\* with, metadata.htmlLength equal to the length of the HTML its
\* Markdown-to-HTML stage returned, and metadata.size equal to the length of
\* the buffer it returns.
C14_DocxMetadataLengths ==
  \A c \in Calls : \A i \in Events(c) :
    (trace[c][i].e = "return" /\ trace[c][i].x = "convertMarkdownToDocx" /\ trace[c][i].r.success) =>
      LET j == CallReturning(c, i)
          md == Get(trace[c][i].r.metadata)
      IN /\ md.originalLength = Len(trace[c][j].a.payload.text)
         /\ md.size = Len(Get(trace[c][i].r.data))
         /\ \E k \in (j + 1)..(i - 1) :
              /\ trace[c][k].e = "return" /\ trace[c][k].x = "convertMarkdownToHtml"
              /\ md.htmlLength = Len(Get(trace[c][k].r.data))

\* convertMarkdownToDocx has succeeded on two blocks of Markdown of which one
\* renders to nothing, with the HTML wrapped into a full document
C14_Witness ==
  \E c \in Calls :
    /\ Returned(c) /\ req[c].fn = "convertMarkdownToDocx" /\ Result(c).success
    /\ req[c].a.payload = Str(<<"# Hi", " ">>)
    /\ Field(req[c].a.options, <<"fullDocument">>) # B(FALSE)
    /\ Get(Result(c).metadata).originalLength = 2
    /\ Get(Result(c).metadata).htmlLength = 1
    /\ Get(Result(c).metadata).size > 2

\* the request is a batch call on a list of n >= 1 sections with valid content
ValidBatch(c) ==
  /\ callId[c] # 0 /\ req[c].fn = "convertMultipleMarkdownToPdf"
  /\ req[c].a.payload.t = "array" /\ Len(req[c].a.payload.items) >= 1
  /\ \A k \in 1..Len(req[c].a.payload.items) :
       /\ req[c].a.payload.items[k].t = "object"
       /\ ~EmptyOrNotString(req[c].a.payload.items[k].content)

\* the positions at which request c called the single-document pipeline
PipelineCalls(c) ==
  {i \in Events(c) : trace[c][i].e = "call" /\ trace[c][i].x = "convertMarkdownToPdf"}

HeadingOf(section) ==
  IF section.title.t = "string" /\ section.title.s # ""
  THEN <<"# ", section.title.s, "\n\n">> ELSE <<>>

BreakMarker == "<div style=\"page-break-after: always;\"></div>"

\* the sections in list order, each with its heading when titled, and a
\* page-break marker between two consecutive sections
RECURSIVE InOrderWithBreaks(_)
InOrderWithBreaks(sections) ==
  IF Len(sections) = 1 THEN HeadingOf(sections[1]) \o sections[1].content.text
  ELSE HeadingOf(sections[1]) \o sections[1].content.text
       \o <<"\n\n", BreakMarker, "\n\n">> \o InOrderWithBreaks(Tail(sections))

\* how often a chunk occurs in a text
Occurrences(chunk, text) == Cardinality({k \in 1..Len(text) : text[k] = chunk})

RECURSIVE Sum(_)
Sum(numbers) == IF numbers = <<>> THEN 0 ELSE Head(numbers) + Sum(Tail(numbers))

\* C15: convertMultipleMarkdownToPdf on a list of n >= 1 sections with valid
\* content calls convertMarkdownToPdf at most once, and exactly once by the
\* time it returns; the Markdown it passes holds the sections in list
\* order, an H1 heading right before exactly the titled ones, and exactly
\* n-1 page-break markers of its own, one between each two consecutive
\* sections and none after the last; on success metadata.markdownLength is
\* the sum of the lengths of the sections' contents.
C15_BatchCombination ==
  \A c \in Calls : ValidBatch(c) =>
    LET sections == req[c].a.payload.items
        n == Len(sections)
        InContent(chunk) == Sum([k \in 1..n |-> Occurrences(chunk, sections[k].content.text)])
        titled == Sum([k \in 1..n |-> IF HeadingOf(sections[k]) # <<>> THEN 1 ELSE 0])
        total == Sum([k \in 1..n |-> Len(sections[k].content.text)])
    IN /\ Cardinality(PipelineCalls(c)) <= 1
       /\ Returned(c) => Cardinality(PipelineCalls(c)) = 1
       /\ \A i \in PipelineCalls(c) :
            LET combined == trace[c][i].a.payload.text
            IN /\ combined = InOrderWithBreaks(sections)
               /\ Occurrences(BreakMarker, combined) = n - 1 + InContent(BreakMarker)
               /\ Occurrences("# ", combined) = titled + InContent("# ")
               /\ combined[Len(combined)] # "\n\n"
       /\ Returned(c) /\ Result(c).success =>
            Get(Result(c).metadata).markdownLength = total

\* a batch of three sections, the first and the last titled, has been
\* converted: one pipeline call, two markers, a reported length of four
C15_Witness ==
  \E c \in Calls :
    /\ ValidBatch(c) /\ Returned(c) /\ Result(c).success
    /\ Len(req[c].a.payload.items) = 3
    /\ Get(Result(c).metadata).markdownLength = 4
    /\ \E i \in PipelineCalls(c) :
         /\ Occurrences(BreakMarker, trace[c][i].a.payload.text) = 2
         /\ Len(trace[c][i].a.payload.text) > 4

\* the sections of a list whose content is empty or not a string
Offending(sections) == {k \in 1..Len(sections) : EmptyOrNotString(sections[k].content)}

\* C16: convertMultipleMarkdownToPdf, given a list of {content, title} pairs,
\* returns success=false when the list is empty or not a list and when the
\* content of any section is empty or not a string; in the second case the
\* error names the lowest offending index (counted from 0); in both cases
\* convertMarkdownToPdf is not called and no engine is launched.
C16_BatchRejected ==
  \A c \in Calls :
    (/\ callId[c] # 0 /\ req[c].fn = "convertMultipleMarkdownToPdf"
     /\ \A k \in 1..Len(req[c].a.payload.items) : req[c].a.payload.items[k].t = "object") =>
      LET list == req[c].a.payload
          noList == list.t # "array" \/ Len(list.items) = 0
          lowest == CHOOSE k \in Offending(list.items) : \A m \in Offending(list.items) : k <= m
      IN (noList \/ Offending(list.items) # {}) =>
           /\ PipelineCalls(c) = {}
           /\ ~Did(c, "puppeteer.launch")
           /\ Returned(c) => ~Result(c).success /\ Result(c).data = None
           /\ Returned(c) /\ ~noList =>
                Get(Result(c).error).fields = {<<ToString(lowest - 1)>>}

\* a batch whose second section is empty and whose third is not a string
\* has been rejected with index 1
C16_Witness ==
  \E c \in Calls :
    /\ Returned(c) /\ req[c].fn = "convertMultipleMarkdownToPdf"
    /\ Offending(req[c].a.payload.items) = {2, 3}
    /\ ~Result(c).success
    /\ Get(Result(c).error).fields = {<<"1">>}
    /\ Len(trace[c]) = 2

\* where the options of a call of fn carry the scale of the PDF
ScalePath(fn) == IF fn \in PdfFns THEN <<"scale">> ELSE <<"pdfOptions", "scale">>

\* the call of request c was refused by the option validation
RefusedByValidation(c) ==
  /\ ~Result(c).success
  /\ Get(Result(c).error).pre = <<"Invalid options: ">>

\* C17: the validation of the PDF options accepts a scale exactly when it
\* lies between 0.1 and 2.0, both included (numbers are in tenths): 0.1 and
\* 2.0 pass, 2.1 and every value below 0.1 are refused with an error that
\* names the scale; likewise for pdfOptions.scale of convertMarkdownToPdf.
C17_ScaleBounds ==
  \A c \in Calls :
    (/\ Returned(c) /\ req[c].fn \in OptionCheckedFns
     /\ ~EmptyOrNotString(req[c].a.payload)
     /\ Field(req[c].a.options, ScalePath(req[c].fn)).t = "number") =>
      LET scale == Field(req[c].a.options, ScalePath(req[c].fn)).n
          others == DeclaredErrors(req[c].fn, req[c].a.options) \ {ScalePath(req[c].fn)}
      IN /\ (scale < 1 \/ scale > 20) =>
              RefusedByValidation(c) /\ ScalePath(req[c].fn) \in Get(Result(c).error).fields
         /\ (1 <= scale /\ scale <= 20) =>
              /\ ~Result(c).success => ScalePath(req[c].fn) \notin Get(Result(c).error).fields
              /\ others = {} => ~RefusedByValidation(c)

\* convertMarkdownToPdf has produced a PDF at the upper end of the range,
\* pdfOptions.scale 2.0
C17_Witness ==
  \E c \in Calls :
    /\ Returned(c) /\ req[c].fn = "convertMarkdownToPdf"
    /\ Field(req[c].a.options, <<"pdfOptions", "scale">>) = N(20)
    /\ Result(c).success
    /\ \E i \in Events(c) :
         trace[c][i].e = "page.pdf" /\ Rendered(trace[c][i].x, <<"scale">>) = N(20)

\* the result the converter of a REST request returned (the last return of
\* a converter function in its trace)
ConverterReturns(c) ==
  {i \in Events(c) : trace[c][i].e = "return" /\ trace[c][i].x = EndpointConverter(req[c].a.endpoint)}

\* a failure of the validation class: the payload or the options were refused
ValidationFailure(r) ==
  /\ ~r.success /\ IsSome(r.error)
  /\ \/ Get(r.error).pre = <<"Invalid options: ">>
     \/ Get(r.error) \in {InvalidInputError(fn) : fn \in StringPayloadFns}

\* C18: every POST /convert/* endpoint answers a failure of the validation
\* class (invalid payload, invalid options) with status 400, any other
\* failure (the rendering engine failed, the DOCX emitter failed) with
\* status 500, both with the JSON body {error: message}, and a success with
\* the bytes and no error body.
C18_RestStatusByFailureClass ==
  \A c \in Calls :
    (Returned(c) /\ req[c].fn = "rest") =>
      /\ Result(c).status \in {200, 400, 500}
      /\ Result(c).status # 200 =>
           /\ Result(c).contentType = "application/json"
           /\ IsSome(Result(c).error) /\ Result(c).sent = None
      /\ Result(c).status = 200 => Result(c).error = None /\ IsSome(Result(c).sent)
      /\ ConverterReturns(c) = {} => Result(c).status = 500
      /\ \A i \in ConverterReturns(c) :
           LET r == trace[c][i].r
           IN /\ ValidationFailure(r) => Result(c).status = 400 /\ Result(c).error = r.error
              /\ ~r.success /\ ~ValidationFailure(r) =>
                   Result(c).status = 500 /\ Result(c).error = r.error
              /\ r.success /\ Get(r.data) # <<>> =>
                   Result(c).status = 200 /\ Within(Get(r.data), Get(Result(c).sent))

\* the positions at which request c called fs.writeFile
Writes(c) == {i \in Events(c) : trace[c][i].e = "fs.writeFile"}

\* the positions at which a converter function called by the handler of
\* request c returned to it
HandlerConversions(c) ==
  {i \in Events(c) : /\ trace[c][i].e = "return" /\ trace[c][i].x \notin Handlers
                     /\ \E j \in 1..(i - 1) :
                          /\ trace[c][j].e = "call" /\ trace[c][j].x = trace[c][i].x
                          /\ \A k \in 2..(j - 1) : trace[c][k].e # "call"}

PdfAndDocxTools ==
  {"html_to_pdf", "url_to_pdf", "markdown_to_pdf", "file_to_pdf", "html_to_docx",
   "markdown_to_docx", "file_to_docx"}

\* the request names an output directory that does not exist
MissingOutputDir(c) ==
  /\ req[c].a.args.present /\ IsSome(req[c].a.args.output_path)
  /\ Get(req[c].a.args.output_path).dir \notin {"in", "out"}

\* the request names an input file that does not exist
MissingInputFile(c) ==
  /\ req[c].a.args.present /\ req[c].a.name \in {"file_to_pdf", "file_to_docx", "file_to_html"}
  /\ IsSome(req[c].a.args.input_path)
  /\ Get(req[c].a.args.input_path) \notin DOMAIN fs.files

\* the request names an input file of a type its tool does not convert
UnsupportedExtension(c) ==
  /\ req[c].a.args.present /\ IsSome(req[c].a.args.input_path)
  /\ \/ /\ req[c].a.name \in {"file_to_pdf", "file_to_docx"}
        /\ extname(Get(req[c].a.args.input_path))
             \notin {".md", ".MD", ".markdown", ".html", ".HTML", ".htm", ".Htm"}
     \/ /\ req[c].a.name = "file_to_html"
        /\ extname(Get(req[c].a.args.input_path)) \notin {".md", ".MD", ".markdown"}

\* what holds of a stdio request in every state
WritesOnlyAfterSuccess(c) ==
  /\ Cardinality(Writes(c)) <= 1
  /\ \A i \in Writes(c) :
       /\ Some(trace[c][i].x.path) = req[c].a.args.output_path
       /\ \E j \in HandlerConversions(c) :
            j < i /\ trace[c][j].r.success /\ IsSome(trace[c][j].r.data)
       /\ \A j \in HandlerConversions(c) : trace[c][j].r.success
  /\ (\/ MissingOutputDir(c) \/ MissingInputFile(c) \/ UnsupportedExtension(c)
      \/ \E j \in HandlerConversions(c) : ~trace[c][j].r.success) =>
       /\ Writes(c) = {}
       /\ Returned(c) => Result(c).isError
  /\ MissingOutputDir(c) /\ req[c].a.name \in PdfAndDocxTools =>
       \A i \in Events(c) :
         i > 1 => trace[c][i].e \notin {"call", "puppeteer.launch", "asBlob", "marked.parse",
                                        "fs.readFile"}

\* a step that changes the filesystem is the write of a stdio request whose
\* conversion returned success with data and which has not written before;
\* it changes the file at output_path and nothing else
WriteStep ==
  \E c \in Calls :
    /\ At(c, "stdio.callTool", "writing")
    /\ Result(c).success /\ IsSome(Result(c).data)
    /\ Writes(c) = {}
    /\ fs'.dirs = fs.dirs
    /\ \A f \in DOMAIN fs.files :
         f # Get(req[c].a.args.output_path) => f \in DOMAIN fs'.files /\ fs'.files[f] = fs.files[f]
    /\ DOMAIN fs'.files = DOMAIN fs.files \cup {Get(req[c].a.args.output_path)}

\* C19: in the stdio front-end a tool call writes the file at output_path
\* only after its conversion returned success with data, and at most once;
\* a call that ends in an error because of a missing output directory, a
\* missing input file, an unsupported file extension or a failed conversion
\* changes nothing in the filesystem; and the PDF and DOCX tools report a
\* missing output directory before any converter or engine is invoked.
C19_WriteOnlyAfterSuccess ==
  /\ [](\A c \in Calls : (callId[c] # 0 /\ req[c].fn = "stdio.callTool") => WritesOnlyAfterSuccess(c))
  /\ [][fs' # fs => WriteStep]_vars

\* html_to_pdf has converted on the stdio front-end and written its PDF to
\* the output path, once
C19_Witness ==
  \E c \in Calls :
    /\ Returned(c) /\ req[c].fn = "stdio.callTool" /\ req[c].a.name = "html_to_pdf"
    /\ ~Result(c).isError
    /\ Cardinality(Writes(c)) = 1
    /\ fs # InitialFs
    /\ fs.files[Get(req[c].a.args.output_path)] = pdfBuffer(<<"<p>x</p>">>)

\* C20: a POST /message that arrives while no event stream has been opened
\* by GET /sse is answered with status 400 and the error 'No SSE connection
\* established' and is not given to the protocol server; a POST /message
\* that arrives after a stream was opened is handed to the transport of a
\* stream that is open.
C20_MessageNeedsOpenStream ==
  \A i \in 1..Len(sse.posts) :
    LET post == sse.posts[i]
    IN /\ post.streamsOpened = 0 =>
            /\ post.status = 400 /\ post.error = "No SSE connection established"
            /\ post.handedTo = 0 /\ post.call = 0
       /\ post.streamsOpened > 0 =>
            /\ post.status = 0
            /\ post.handedTo \in 1..post.streamsOpened
            /\ post.streamOpen

\* ------------------------------------------------ C21

\* the nine operations the documentation declares
DeclaredOperations ==
  {"html_to_pdf", "url_to_pdf", "markdown_to_html", "markdown_to_pdf", "file_to_pdf",
   "html_to_docx", "markdown_to_docx", "file_to_docx", "file_to_html"}

\* the names a returned list-tools call listed
NamesListed(c) == {Result(c).tools[i] : i \in 1..Len(Result(c).tools)}

\* the returned call-tool call found no case for the name
NoCaseFor(c) == Result(c) = ErrorResponse(Text("Error: ", "Unknown tool"))

\* C21: the stdio and the HTTP front-end expose the same tools. Whenever
\* both have answered a list-tools request the two lists hold the same
\* names, whenever both have answered a call of the same name either both
\* or neither found a case for it, and on each front-end the names listed
\* and the names with a case are the nine declared operations.
C21_SameToolsOnBothFrontEnds ==
  /\ \A c \in Calls :
       Returned(c) =>
         /\ req[c].fn \in ListHandlers => NamesListed(c) = DeclaredOperations
         /\ req[c].fn \in Handlers => (NoCaseFor(c) <=> req[c].a.name \notin DeclaredOperations)
  /\ \A c \in Calls, d \in Calls :
       (Returned(c) /\ Returned(d) /\ FrontEndOf(req[c].fn) # FrontEndOf(req[d].fn)) =>
         /\ (req[c].fn \in ListHandlers /\ req[d].fn \in ListHandlers) =>
              NamesListed(c) = NamesListed(d)
         /\ (req[c].fn \in Handlers /\ req[d].fn \in Handlers /\ req[c].a.name = req[d].a.name) =>
              (NoCaseFor(c) <=> NoCaseFor(d))

\* ------------------------------------------------ C22

\* request c is a run of the command line that has ended
CliEnded(c) == Returned(c) /\ req[c].fn = "cli"

\* request c is `convert <type> <input-file> <output-file>`, with or without
\* options after the three arguments
ConvertRun(c) ==
  /\ req[c].fn = "cli"
  /\ Len(req[c].a.argv) >= 4
  /\ req[c].a.argv[1] = "convert"
  /\ \A i \in 2..4 : req[c].a.argv[i] \notin {"--full-doc", "--title", "--port", "-p", "--help", "-h"}

\* the run printed text on the stream
Printed(c, stream, text) ==
  \E i \in Events(c) : trace[c][i].e = stream /\ trace[c][i].x = text

\* a read or a write of a file was refused, the converters were not built,
\* or the parser raised
EnvironmentFailed(c) ==
  \/ Printed(c, "console.error", "Error: EACCES")
  \/ Printed(c, "console.error", "Error: Cannot find module")
  \/ \E i \in Events(c) : /\ trace[c][i].e = "return" /\ trace[c][i].x # "cli"
                          /\ ~trace[c][i].r.success
                          /\ IsSome(trace[c][i].r.error)
                          /\ Get(trace[c][i].r.error).text = "marked threw"

\* Markdown or HTML that every converter turns into a document
Convertible(content) ==
  /\ content # <<>>
  /\ markedParse(content, markedSettings(Undefined)) # <<>>

\* C22: for each of the five conversion types, convert <type> <input-file>
\* <output-file> on an existing input file with convertible content writes
\* the converted output to <output-file> and ends with the success message
\* and exit status 0.
C22_CliConvertSucceeds ==
  \A c \in Calls :
    (/\ CliEnded(c) /\ ConvertRun(c)
     /\ req[c].a.argv[2] \in ConversionTypes
     /\ CliPath(req[c].a.argv[3]) \in DOMAIN InitialFs.files
     /\ Convertible(InitialFs.files[CliPath(req[c].a.argv[3])])
     /\ ~EnvironmentFailed(c)) =>
      /\ Result(c).code = 0
      /\ Printed(c, "console.log", "Successfully converted")
      /\ CliPath(req[c].a.argv[4]) \in DOMAIN fs.files
      /\ fs.files[CliPath(req[c].a.argv[4])] # <<>>

\* ------------------------------------------------ C23

\* the words of a command line from position i on that are neither an
\* option nor the value of one
RECURSIVE Positionals(_, _)
Positionals(args, i) ==
  IF i > Len(args) THEN <<>>
  ELSE IF args[i] \in {"--title", "--port", "-p"} THEN Positionals(args, i + 2)
  ELSE IF args[i] \in {"--full-doc", "--help", "-h"} THEN Positionals(args, i + 1)
  ELSE <<args[i]>> \o Positionals(args, i + 1)

\* request c is a convert command that does not ask for the help text
ConvertCommand(c) ==
  /\ req[c].fn = "cli"
  /\ req[c].a.argv # <<>>
  /\ req[c].a.argv[1] = "convert"
  /\ \A i \in 1..Len(req[c].a.argv) : req[c].a.argv[i] \notin {"--help", "-h"}

\* the type, the input file and the output file of a convert command
ConvertArguments(c) == Positionals(req[c].a.argv, 2)

FewerThanThree(c) == Len(ConvertArguments(c)) < 3
MissingInput(c) ==
  /\ Len(ConvertArguments(c)) >= 3
  /\ CliPath(ConvertArguments(c)[2]) \notin DOMAIN InitialFs.files
UnknownType(c) ==
  /\ Len(ConvertArguments(c)) >= 3
  /\ ConvertArguments(c)[1] \notin ConversionTypes
ConverterRefused(c) ==
  \E i \in Events(c) : trace[c][i].e = "return" /\ trace[c][i].x # "cli" /\ ~trace[c][i].r.success

\* the run wrote to standard error, then left with status 1, and no write
\* of a file was done
FailedCleanly(c) ==
  /\ Result(c).code = 1
  /\ \E i \in Events(c), j \in Events(c) :
       i < j /\ trace[c][i].e = "console.error" /\ trace[c][j].e = "process.exit"
  /\ ~Did(c, "fs.writeFile")

\* C23: the convert command exits with status 1 after a message on standard
\* error and without writing the output file when the input file does not
\* exist, when the type is not one of the five, when fewer than three
\* positional arguments are given, and when the converter returns
\* success=false; a missing input file is reported before the type is
\* examined.
C23_CliConvertFailures ==
  \A c \in Calls :
    (CliEnded(c) /\ ConvertCommand(c)) =>
      /\ (FewerThanThree(c) \/ MissingInput(c) \/ UnknownType(c) \/ ConverterRefused(c))
           => FailedCleanly(c)
      /\ MissingInput(c) =>
           /\ Printed(c, "console.error", "Error: Input file does not exist.")
           /\ ~Did(c, "switch")

\* ------------------------------------------------ C24

\* request c is a run of the launcher: no command, stdio, or http with its
\* options
LauncherRun(c) ==
  /\ callId[c] # 0
  /\ req[c].fn = "cli"
  /\ \/ req[c].a.argv = <<>>
     \/ req[c].a.argv[1] = "stdio"
     \/ /\ req[c].a.argv[1] = "http"
        /\ \A i \in 1..Len(req[c].a.argv) : req[c].a.argv[i] \notin {"--help", "-h"}

\* the positions of the trace where the launcher started a child
Spawns(c) == {i \in Events(c) : trace[c][i].e = "spawn"}

\* the child was started and has not closed
ChildRunning(c) ==
  /\ At(c, "cli", "serving")
  /\ Top(c).l.child = "running"

\* C24: the launcher starts exactly one server child process (spawn is
\* called once), with PORT set to P when --port P is given to http, forwards
\* every SIGINT and SIGTERM it receives to that child, does not exit while
\* the child is running, and exits with the child's exit code once the
\* child has closed.
C24_LauncherFollowsChild ==
  \A c \in Calls :
    LauncherRun(c) =>
      /\ ~At(c, "cli", "start") => Cardinality(Spawns(c)) = 1
      /\ \A i \in Spawns(c) :
           /\ trace[c][i].x.script =
                (IF req[c].a.argv # <<>> /\ req[c].a.argv[1] = "http"
                 THEN "http-server.js" ELSE "index.js")
           /\ \A k \in 2..(Len(req[c].a.argv) - 1) :
                (req[c].a.argv[1] = "http" /\ req[c].a.argv[k] \in {"--port", "-p"}) =>
                  trace[c][i].x.PORT = Some(req[c].a.argv[k + 1])
      /\ \A i \in Events(c) :
           trace[c][i].e = "signal" =>
             /\ i < Len(trace[c])
             /\ trace[c][i + 1] = Ev("server.kill", trace[c][i].x)
      /\ Returned(c) =>
           /\ ~Result(c).childRunning
           /\ \A i \in Events(c) :
                (trace[c][i].e = "close" /\ IsSome(trace[c][i].x)) =>
                  Result(c).code = Get(trace[c][i].x)

\* ------------------------------------------------ C25

\* the call of markdown->html that the event at position i belongs to
MarkdownCall(c, i) ==
  CHOOSE j \in 1..(i - 1) :
    /\ trace[c][j].e = "call" /\ trace[c][j].x = "convertMarkdownToHtml"
    /\ \A k \in (j + 1)..(i - 1) : trace[c][k].e # "call"

SanitizerKeys == {"allowedTags", "allowedAttributes", "allowedSchemes", "allowedClasses"}

\* the caller's options supply key k of the sanitizer policy
Supplies(o, k) == o.t = "object" /\ <<"sanitizerOptions", k>> \in DOMAIN o.f

\* C25: in markdown->html with sanitize set, the policy the sanitizer gets
\* has, for each of allowedTags, allowedAttributes, allowedSchemes and
\* allowedClasses, the caller's value as a whole when the caller supplies
\* the key and the built-in default otherwise, never a combination of the
\* two; with sanitize not set the sanitizer is not invoked.
C25_SanitizerPolicyShallow ==
  \A c \in Calls : \A i \in Events(c) :
    /\ trace[c][i].e = "sanitizeHtml" =>
         LET o == trace[c][MarkdownCall(c, i)].a.options
         IN /\ Truthy(Field(o, <<"sanitize">>))
            /\ DOMAIN trace[c][i].x.f = {<<k>> : k \in SanitizerKeys}
            /\ \A k \in SanitizerKeys :
                 trace[c][i].x.f[<<k>>] =
                   (IF Supplies(o, k) THEN o.f[<<"sanitizerOptions", k>>]
                    ELSE DEFAULT_SANITIZER_OPTIONS.f[<<k>>])
    /\ (trace[c][i].e = "return" /\ trace[c][i].x = "convertMarkdownToHtml"
        /\ trace[c][i].r.success) =>
         LET j == CallReturning(c, i)
             o == trace[c][j].a.options
         IN Truthy(Field(o, <<"sanitize">>)) <=>
              \E k \in (j + 1)..(i - 1) : trace[c][k].e = "sanitizeHtml"

\* markdown->html, called with a heading and a paragraph, sanitize set and
\* allowedTags holding h1 only, has returned the heading and the text of the
\* paragraph without its tags
C25_Witness ==
  \E c \in Calls : \E i \in Events(c) :
    /\ trace[c][i].e = "return" /\ trace[c][i].x = "convertMarkdownToHtml"
    /\ trace[c][i].r.success
    /\ trace[c][CallReturning(c, i)].a.payload = Str(<<"# Hi", "a\nb">>)
    /\ Supplies(trace[c][CallReturning(c, i)].a.options, "allowedTags")
    /\ Did(c, "sanitizeHtml")
    /\ trace[c][i].r.data = Some(<<"<h1>Hi</h1>", "a\nb">>)

\* ------------------------------------------------ C26

\* C26: every successful return of markdown->html has metadata.originalLength
\* equal to the length of the Markdown it was called with,
\* metadata.htmlLength equal to the length of the HTML it returns, and
\* metadata.sanitized true exactly when the sanitize option was true, which
\* is exactly when the sanitizer was invoked; with default options
\* sanitized is false.
C26_MarkdownMetadata ==
  \A c \in Calls : \A i \in Events(c) :
    (trace[c][i].e = "return" /\ trace[c][i].x = "convertMarkdownToHtml"
     /\ trace[c][i].r.success) =>
      LET j == CallReturning(c, i)
          a == trace[c][j].a
          r == trace[c][i].r
          md == Get(r.metadata)
          invoked == \E k \in (j + 1)..(i - 1) : trace[c][k].e = "sanitizeHtml"
      IN /\ md.originalLength = length(a.payload.text)
         /\ md.htmlLength = length(Get(r.data))
         /\ md.sanitized <=> Field(a.options, <<"sanitize">>) = B(TRUE)
         /\ md.sanitized <=> invoked
         /\ a.options = Undefined => ~md.sanitized

\* markdown->html has returned a heading and a paragraph, sanitized, with
\* the lengths of its input and of its output in the metadata
C26_Witness ==
  \E c \in Calls : \E i \in Events(c) :
    /\ trace[c][i].e = "return" /\ trace[c][i].x = "convertMarkdownToHtml"
    /\ trace[c][i].r.success
    /\ trace[c][CallReturning(c, i)].a.payload = Str(<<"# Hi", " ">>)
    /\ Get(trace[c][i].r.metadata) = [originalLength |-> 2, htmlLength |-> 1, sanitized |-> TRUE]

\* ------------------------------------------------ C27

\* request c is a call of the full-document wrap that has returned
Wrapped(c) == Returned(c) /\ req[c].fn = "createFullHtmlDocument"

\* the first position of a chunk in a text (0: none)
IndexOf(chunk, text) ==
  IF \E i \in 1..Len(text) : text[i] = chunk
  THEN CHOOSE i \in 1..Len(text) : text[i] = chunk /\ \A j \in 1..(i - 1) : text[j] # chunk
  ELSE 0

\* the document is made of its arguments and of fixed text only: up to the
\* style element it is the fixed head with the title given ('Document' when
\* none was), the style element holds the default stylesheet and then the
\* caller's CSS, and the body element holds the fragment as it was given
WrapsInOrder(doc, a) ==
  LET st == IndexOf("<style>", doc)
      css == IF a.cssStyles.t = "string" /\ a.cssStyles.s # "" THEN <<a.cssStyles.s>> ELSE <<>>
      body == IndexOf("<body>", doc)
  IN /\ st = 9 /\ body # 0
     /\ doc[1] = "<!DOCTYPE html>" /\ doc[2] = "<html lang=\"en\">" /\ doc[3] = "<head>"
     /\ doc[4] = "<meta charset=\"UTF-8\">" /\ doc[5] = "<meta name=\"viewport\">"
     /\ doc[6] = "<title>" /\ doc[8] = "</title>"
     /\ doc[7] = (IF a.title.t = "string" THEN a.title.s ELSE "Document")
     /\ SubSeq(doc, st + 1, body - 1) = <<"defaultStyles">> \o css \o <<"</style>", "</head>">>
     /\ SubSeq(doc, body + 1, Len(doc)) = a.htmlContent \o <<"</body>", "</html>">>

\* C27: the text the full-document wrap returns is settled by its three
\* arguments, fragment, title and CSS, and by nothing else, whatever calls
\* were made before or during it, so that two calls with equal arguments
\* return the same text: it is the fixed head with the title, a style
\* element with the default stylesheet first and the caller's CSS after it,
\* and a body element with the fragment, unchanged, as its content.
C27_WrapIsAFunction ==
  \A c \in Calls : Wrapped(c) => WrapsInOrder(Result(c).text, req[c].a)

\* two calls of the wrap with the same fragment, title and CSS have
\* returned the same text, the second one after a markdown->html call that
\* changed the parser's settings
C27_Witness ==
  \E c \in Calls, d \in Calls :
    /\ c # d /\ Wrapped(c) /\ Wrapped(d) /\ req[c].a = req[d].a
    /\ req[c].a.cssStyles = S("h1 { color: red; }")
    /\ req[c].a.htmlContent # <<>>
    /\ callId[c] = 1 /\ callId[d] = 3
    /\ marked # MarkedDefaults
    /\ Result(c).text = Result(d).text

\* C28: the stdio file tools check that the input file exists, then that the
\* output directory exists, then the extension of the input file whatever its
\* case: for file_to_pdf and file_to_docx .html and .htm go to the HTML
\* converter and .md and .markdown to the Markdown one, file_to_html takes .md
\* and .markdown only, and any other extension is answered with an isError
\* response that names it, with no converter called and no file written.
HtmlExtensions == {".html", ".HTML", ".htm", ".HTM", ".Htm"}
MarkdownExtensions == {".md", ".MD", ".markdown", ".MARKDOWN"}

\* the converter the handler of a file tool is to call for an extension
Route(name, ext) ==
  CASE name = "file_to_pdf" /\ ext \in HtmlExtensions -> "convertHtmlFileToPdf"
    [] name = "file_to_pdf" /\ ext \in MarkdownExtensions -> "convertMarkdownFileToPdf"
    [] name = "file_to_docx" /\ ext \in HtmlExtensions -> "convertHtmlToDocx"
    [] name = "file_to_docx" /\ ext \in MarkdownExtensions -> "convertMarkdownToDocx"
    [] name = "file_to_html" /\ ext \in MarkdownExtensions -> "convertMarkdownToHtml"
    [] OTHER -> "none"

\* the type an answer names for an extension: the extension in small letters
TypeNamed(ext) ==
  CASE ext \in {".htm", ".Htm", ".HTM"} -> ".htm"
    [] ext \in {".html", ".HTML"} -> ".html"
    [] ext \in {".txt", ".TXT"} -> ".txt"
    [] OTHER -> ext

Accesses(c) == {i \in Events(c) : trace[c][i].e = "fs.access"}
Reads(c) == {i \in Events(c) : trace[c][i].e = "fs.readFile"}
ConverterCalls(c) == {i \in Events(c) : trace[c][i].e = "call" /\ trace[c][i].x \notin Handlers}

\* the call the handler itself makes: the first one after its own
RoutedCalls(c) == {j \in ConverterCalls(c) : \A k \in ConverterCalls(c) : j <= k}

UnsupportedTexts ==
  {"Unsupported file type: ", "Unsupported file type for DOCX conversion: ",
   "Unsupported file type for HTML conversion: "}

FileToolChecksInOrder(c) ==
  LET a == req[c].a.args
      name == req[c].a.name
      acc == Accesses(c)
      inputThere == IsSome(a.input_path) /\ Get(a.input_path) \in DOMAIN fs.files
      dirThere == IsSome(a.output_path) /\ Get(a.output_path).dir \in fs.dirs
      expected == IF inputThere THEN Route(name, extname(Get(a.input_path))) ELSE "none"
      answer == Result(c).content[1]
  IN /\ Cardinality(acc) <= 2
     /\ \A i \in acc :
          IF \A k \in acc : i <= k THEN trace[c][i].x = a.input_path
          ELSE inputThere /\ IsSome(a.output_path) /\ trace[c][i].x = Get(a.output_path).dir
     /\ \A j \in ConverterCalls(c) \cup Reads(c) \cup Writes(c) :
          /\ inputThere /\ dirThere
          /\ Cardinality({i \in acc : i < j}) = 2
     /\ \A j \in RoutedCalls(c) : trace[c][j].x = expected
     /\ expected = "none" => ConverterCalls(c) = {} /\ Reads(c) = {} /\ Writes(c) = {}
     /\ Returned(c) =>
          IF ~inputThere
          THEN /\ Result(c).isError /\ answer = Text("Input file does not exist: ", a.input_path)
               /\ Cardinality(acc) = 1
          ELSE IF a.output_path = None THEN Result(c).isError /\ Cardinality(acc) = 1
          ELSE IF ~dirThere
          THEN /\ Result(c).isError
               /\ answer = Text("Directory does not exist: ", Get(a.output_path).dir)
               /\ Cardinality(acc) = 2
          ELSE IF expected = "none"
          THEN /\ Result(c).isError /\ answer.text \in UnsupportedTexts
               /\ answer.x = TypeNamed(extname(Get(a.input_path)))
               /\ Cardinality(acc) = 2
          ELSE a.options.t # "null" => RoutedCalls(c) # {}

C28_FileToolsCheckInOrder ==
  \A c \in Calls :
    (/\ callId[c] # 0 /\ req[c].fn = "stdio.callTool" /\ req[c].a.name \in FileTools
     /\ req[c].a.args.present) => FileToolChecksInOrder(c)

\* file_to_pdf was given in/DOC.MD, checked the file and then the directory,
\* called the Markdown converter and wrote the PDF
C28_Witness ==
  \E c \in Calls :
    /\ Returned(c) /\ req[c].fn = "stdio.callTool" /\ req[c].a.name = "file_to_pdf"
    /\ req[c].a.args.input_path = Some(Path("in", "DOC", <<".", "M", "D">>))
    /\ Cardinality(Accesses(c)) = 2
    /\ \E j \in RoutedCalls(c) :
         /\ trace[c][j].x = "convertMarkdownFileToPdf"
         /\ \A i \in Accesses(c) : i < j
    /\ ~Result(c).isError /\ Cardinality(Writes(c)) = 1

\* C29: the parser's settings are one record for the whole process, written
\* by every markdown->html call before it parses; however the calls in
\* progress interleave, each call's Markdown is parsed with the settings of
\* its own options (GitHub-flavored mode on unless gfm is false, line breaks
\* and pedantic mode off unless true), never with those another call wrote.
OwnSettings(o) ==
  [breaks |-> Field(o, <<"breaks">>) = B(TRUE),
   gfm |-> Field(o, <<"gfm">>) # B(FALSE),
   pedantic |-> Field(o, <<"pedantic">>) = B(TRUE)]

Parses(c) == {i \in Events(c) : trace[c][i].e = "marked.parse"}

\* every parse of request c follows a write of the settings of its own call
\* and uses them
ParsedWithOwnSettings(c) ==
  \A i \in Parses(c) :
    LET own == OwnSettings(trace[c][MarkdownCall(c, i)].a.options)
    IN /\ trace[c][i].x = own
       /\ trace[c][i - 1] = Ev("marked.setOptions", own)

\* a step in which request c parses leaves the process with c's settings
ParseStep(c) ==
  /\ Parses(c)' # Parses(c)
  /\ \A i \in Parses(c)' \ Parses(c) : marked' = trace[c][i].x'

C29_ParsedWithOwnSettings ==
  /\ [](\A c \in Calls : callId[c] # 0 => ParsedWithOwnSettings(c))
  /\ [][marked' # marked => \E c \in Calls : ParseStep(c)]_vars

\* two markdown->html calls are in progress, both have parsed, each with its
\* own settings, which differ, and the process holds the second one's
C29_Witness ==
  \E c, d \in Calls :
    /\ c # d /\ callId[c] < callId[d]
    /\ At(c, "convertMarkdownToHtml", "parsed") /\ At(d, "convertMarkdownToHtml", "parsed")
    /\ \E i \in Parses(c), j \in Parses(d) :
         /\ trace[c][i].x # trace[d][j].x
         /\ trace[c][i].x = [breaks |-> TRUE, gfm |-> FALSE, pedantic |-> FALSE]
         /\ trace[d][j].x = MarkedDefaults
         /\ marked = trace[d][j].x

\* C30: the HTTP front-end has one transport slot for all clients; every
\* GET /sse puts the transport of the new stream into it and the close of a
\* stream leaves it as it is, so once two streams have been opened every
\* later POST /message is handled by the transport of the stream opened last.
SlotHoldsNewest == sse.transport = Len(sse.streams)

HandledByNewest ==
  \A i \in 1..Len(sse.posts) :
    LET post == sse.posts[i]
    IN post.streamsOpened >= 1 =>
         /\ post.handedTo = post.streamsOpened
         /\ post.status = 0

\* the slot changes only when a stream is opened, to that stream's transport
SlotStep ==
  sse.transport' # sse.transport =>
    /\ Len(sse.streams') = Len(sse.streams) + 1
    /\ sse.transport' = Len(sse.streams')

C30_SingleTransportSlot ==
  /\ [](SlotHoldsNewest /\ HandledByNewest)
  /\ [][SlotStep]_vars

\* two streams were opened, the second was closed while the first stayed
\* open, and a message posted after that went to the second one's transport
C30_Witness ==
  /\ Len(sse.streams) = 2 /\ sse.streams[1] = "open" /\ sse.streams[2] = "closed"
  /\ \E i \in 1..Len(sse.posts) :
       /\ sse.posts[i].streamsOpened = 2 /\ sse.posts[i].handedTo = 2
       /\ ~sse.posts[i].streamOpen

====
